---- MODULE Spec2Model ----
(***************************************************************************)
(* Model of the alert pipeline of lec-core (packages/alert-manager).       *)
(*                                                                         *)
(* AlertManager (alert-manager.ts): sendAlerts, sendCustomEmail and the    *)
(* private sendWithRetry loop, driven by the replies of the mailer         *)
(* (NodemailerClient.send) and of the template renderer.                   *)
(*                                                                         *)
(* FailureDetector (failure-detector.ts): trackJobFailure, getFailureCount, *)
(* resetFailureHistory and clearAll over the per-worker failure history,   *)
(* with overlapping trackJobFailure calls and a clock.                     *)
(*                                                                         *)
(* Six specifications share the variables: Spec follows one call of the    *)
(* manager at a time in full detail, SpecClassify the retry loop over      *)
(* every kind of error reply (a transporter that also throws strings),     *)
(* SpecDetector the FailureDetector, SpecDispatch overlapping sendAlert    *)
(* calls and the sends they issue, SpecLifecycle the singleton             *)
(* (initialize, getInstance, reset), and SpecQuery the construction of a   *)
(* PaginatedQueryBase (ddd-tools).                                         *)
(*                                                                         *)
(* Encoding of TypeScript values:                                          *)
(*   - an optional value (T | undefined | null) is a sequence of length 0  *)
(*     (absent) or 1 (present): None, Some(v);                             *)
(*   - an error message is a sequence of one-character strings, so that    *)
(*     toLowerCase() and includes() are computed, not assumed;             *)
(*   - a mailer reply is [kind |-> "result", data, error] (the resolved    *)
(*     SendEmailResult) or [kind |-> "throw", message] (a rejection).      *)
(***************************************************************************)
EXTENDS Integers, Sequences, FiniteSets, TLC

VARIABLES
    retryConfig,   \* AlertManager.retryConfig: [maxAttempts, delays]
    configFrom,    \* AlertManager.config.fromEmail (optional)
    op,            \* the public operation in progress: "none", "sendAlerts", "sendCustomEmail"
    pc,            \* where that call is: "idle", "rendering", "sending", "sleeping", "done"
    argFrom,       \* the call's options.from / params.from argument (optional)
    fromEmail,     \* the call's local fromEmail (optional)
    attempt,       \* sendWithRetry's loop variable
    renderCalls,   \* render() calls made by the call in progress
    renderOutcome, \* how the call's render() settled: "none", "ok", "failed"
    sendCalls,     \* mailer.send() calls made by the call in progress
    replies,       \* what each of those mailer.send() calls settled with, in order
    sleeps,        \* the durations passed to sleep() by the call in progress, in order
    result,        \* what the call returned (NoResult until it settles)
    prevCall,      \* the previous call and how it settled (optional): [op, kind]
    now,           \* the clock, Date.now(), in ms
    thresholds,    \* ALERT_THRESHOLDS: [failuresInWindow, timeWindowMinutes]
    managerUp,     \* AlertManager.instance !== null
    failureHistory, \* FailureDetector.failureHistory: worker -> timestamps (a Map)
    trackCalls,    \* the trackJobFailure calls made so far, in order of arrival
    lastRead,      \* what getFailureCount returned, when it was the last call made (optional)
    manualReset,   \* resetFailureHistory or clearAll has been called
    calls,         \* overlapping sendAlert calls, in order of arrival
    mails,         \* the mailer.send() calls issued by those calls (a set)
    debounceWindowMs, \* AlertManager.debounceWindowMs
    instancesBuilt, \* the AlertManager instances constructed so far
    lastGet,       \* what getInstance / isInitialized returned, when it was the last call made (optional)
    queryProps,    \* the props the last PaginatedQueryBase was constructed from
    query          \* that query's fields (optional): [limit, offset, page, search]

\* the variables of one sendAlerts / sendCustomEmail call
callVars == <<retryConfig, configFrom, op, pc, argFrom, fromEmail, attempt,
              renderCalls, renderOutcome, sendCalls, replies, sleeps, result,
              prevCall>>

\* the variables of the FailureDetector and of its clock
detectorVars == <<now, thresholds, managerUp, failureHistory, trackCalls, lastRead,
                  manualReset>>

\* the variables of overlapping sendAlert calls
dispatchVars == <<calls, mails>>

\* the rest of the singleton's state
lifecycleVars == <<debounceWindowMs, instancesBuilt, lastGet>>

\* the last paginated query constructed (ddd-tools)
queryVars == <<queryProps, query>>

\* what a step of one sendAlerts / sendCustomEmail call leaves alone
pipelineVars == <<detectorVars, dispatchVars, lifecycleVars, queryVars>>

vars == <<callVars, pipelineVars>>

\* ------------------------------------------------------------------------
\* Bounds of the model
\* ------------------------------------------------------------------------

\* largest configured retry.maxAttempts explored
MaxAttemptsBound == 3

\* overlapping sendAlert calls explored in one behaviour
MaxAlerts == 2

\* AlertManager instances constructed in one behaviour
MaxInstances == 2

\* largest limit and page passed to a paginated query
MaxNumber == 3

\* trackJobFailure calls explored in one behaviour
MaxReports == 3

\* clock advances explored in one behaviour
MaxTicks == 2

\* ------------------------------------------------------------------------
\* Optional values
\* ------------------------------------------------------------------------

None == <<>>

Some(v) == <<v>>

IsNullish(o) == o = None

\* a ?? b
Coalesce(a, b) == IF IsNullish(a) THEN b ELSE a

\* ------------------------------------------------------------------------
\* Strings as character sequences
\* ------------------------------------------------------------------------

UpperChars == <<"A","B","C","D","E","F","G","H","I","J","K","L","M",
                "N","O","P","Q","R","S","T","U","V","W","X","Y","Z">>

LowerChars == <<"a","b","c","d","e","f","g","h","i","j","k","l","m",
                "n","o","p","q","r","s","t","u","v","w","x","y","z">>

LowerChar(c) ==
    IF \E j \in DOMAIN UpperChars : UpperChars[j] = c
    THEN LowerChars[CHOOSE j \in DOMAIN UpperChars : UpperChars[j] = c]
    ELSE c

\* String.prototype.toLowerCase
toLowerCase(s) == [i \in DOMAIN s |-> LowerChar(s[i])]

\* String.prototype.includes
includes(s, sub) ==
    \E i \in 0..(Len(s) - Len(sub)) : SubSeq(s, i + 1, i + Len(sub)) = sub

W_timeout == <<"t","i","m","e","o","u","t">>
W_network == <<"n","e","t","w","o","r","k">>
W_econnrefused == <<"e","c","o","n","n","r","e","f","u","s","e","d">>
W_auth == <<"a","u","t","h">>
W_credentials == <<"c","r","e","d","e","n","t","i","a","l","s">>
W_rate == <<"r","a","t","e">>
W_too_many == <<"t","o","o"," ","m","a","n","y">>
W_recipient == <<"r","e","c","i","p","i","e","n","t">>
W_address == <<"a","d","d","r","e","s","s">>

\* Messages of the errors the SMTP transporter raises in the model
MsgTimeout == <<"T","i","m","e","o","u","t">>
MsgNetwork == <<"N","E","T","W","O","R","K">>
MsgEconnrefused == <<"E","C","O","N","N","R","E","F","U","S","E","D">>
MsgAuth == <<"B","a","d"," ","a","u","t","h">>
MsgAuthTimeout == <<"A","u","t","h"," ","t","i","m","e","o","u","t">>
MsgTooMany == <<"T","o","o"," ","m","a","n","y">>
MsgRecipient == <<"N","o"," ","r","e","c","i","p","i","e","n","t">>
MsgBoom == <<"b","o","o","m">>

\* ------------------------------------------------------------------------
\* NodemailerClient (nodemailer.ts)
\* ------------------------------------------------------------------------

\* NodemailerClient.getErrorStatusCode: thrown = [isError, message]
getErrorStatusCode(thrown) ==
    IF ~thrown.isError THEN None
    ELSE LET msg == toLowerCase(thrown.message) IN
         IF includes(msg, W_auth) \/ includes(msg, W_credentials) THEN Some(401)
         ELSE IF includes(msg, W_rate) \/ includes(msg, W_too_many) THEN Some(429)
         ELSE IF \/ includes(msg, W_econnrefused)
                 \/ includes(msg, W_timeout)
                 \/ includes(msg, W_network) THEN Some(503)
         ELSE IF includes(msg, W_recipient) \/ includes(msg, W_address) THEN Some(400)
         ELSE Some(500)

\* NodemailerClient.send: the SendEmailResult built from what
\* transporter.sendMail did, o = [kind |-> "sent", messageId] or
\* [kind |-> "raise", isError, message].  It never rejects.
NodemailerSend(o) ==
    IF o.kind = "sent"
    THEN [kind |-> "result", data |-> Some([id |-> o.messageId]), error |-> None]
    ELSE [kind |-> "result", data |-> None,
          error |-> Some([message |-> o.message,
                          statusCode |-> getErrorStatusCode(o)])]

\* What transporter.sendMail does in the model
TransportMessages ==
    {MsgTimeout, MsgNetwork, MsgEconnrefused, MsgAuth, MsgAuthTimeout,
     MsgTooMany, MsgRecipient, MsgBoom}

SendMailOutcomes ==
    {[kind |-> "sent", messageId |-> "msg-1"]}
    \cup {[kind |-> "raise", isError |-> TRUE, message |-> m] : m \in TransportMessages}
    \cup {[kind |-> "raise", isError |-> FALSE, message |-> MsgBoom]}

NodemailerReplies == {NodemailerSend(o) : o \in SendMailOutcomes}

\* Replies only a substituted mailer (the SendEmailResult interface allows
\* them) can give: status codes that do not follow from the message, a
\* result with neither data nor error, an empty id, and a rejection.
StubReplies ==
    {[kind |-> "result", data |-> None,
      error |-> Some([message |-> MsgBoom, statusCode |-> Some(c)])] : c \in {401, 503}}
    \cup {[kind |-> "result", data |-> None, error |-> None],
          [kind |-> "result", data |-> Some([id |-> ""]), error |-> None],
          [kind |-> "result", data |-> Some([id |-> "msg-2"]), error |-> None]}
    \cup {[kind |-> "throw", message |-> m] : m \in {MsgBoom, MsgAuth}}

Replies == NodemailerReplies \cup StubReplies

\* transporter.sendMail throws a string, not an Error: NodemailerClient.send
\* reports String(error) as the message and no statusCode, so that only the
\* message tells what the error is
StringRaises ==
    {[kind |-> "raise", isError |-> FALSE, message |-> m] :
        m \in {MsgTimeout, MsgNetwork, MsgEconnrefused}}

ClassifierReplies == Replies \cup {NodemailerSend(o) : o \in StringRaises}

\* ------------------------------------------------------------------------
\* AlertManager (alert-manager.ts): configuration
\* ------------------------------------------------------------------------

DEFAULT_RETRY_CONFIG == [maxAttempts |-> 3, delays |-> <<1000, 2000, 4000>>]

\* The constructor's retryConfig, from the optional config.retry fields
RetryConfigOf(retry) ==
    [maxAttempts |-> Coalesce(retry.maxAttempts, Some(DEFAULT_RETRY_CONFIG.maxAttempts))[1],
     delays      |-> Coalesce(retry.delays, Some(DEFAULT_RETRY_CONFIG.delays))[1]]

\* config.retry values explored
DelayLists == {<<>>, <<700>>, <<0, 250>>, <<1000, 2000, 4000>>}

RetryInputs ==
    [maxAttempts : {None} \cup {Some(n) : n \in 0..MaxAttemptsBound},
     delays      : {None} \cup {Some(d) : d \in DelayLists}]

\* config.fromEmail / options.from / params.from
FromInputs == {None, Some(""), Some("alerts@lec.dev")}

\* variant: fromEmail === undefined
IsFalsyString_UndefinedOnly(o) == o = None

\* !fromEmail
IsFalsyString(o) == o = None \/ o = Some("")

\* ------------------------------------------------------------------------
\* AlertManager: results
\* ------------------------------------------------------------------------

NoResult == [kind |-> "none"]

OkOf(id) == [kind |-> "Ok", id |-> id]

ErrOf(message, context) == [kind |-> "Err", message |-> message, context |-> context]

\* ------------------------------------------------------------------------
\* AlertManager.isTransientError
\* ------------------------------------------------------------------------

\* variant: only the status code is looked at
isTransientError_StatusOnly(error) ==
    error.statusCode = Some(429) \/ error.statusCode = Some(503)

\* variant: every transport error is retried
isTransientError_Always(error) == TRUE

\* variant: the message is searched as it is, without toLowerCase()
isTransientError_CaseSensitive(error) ==
    IF error.statusCode = Some(429) \/ error.statusCode = Some(503) THEN TRUE
    ELSE LET msg == error.message IN
         \/ includes(msg, W_timeout)
         \/ includes(msg, W_network)
         \/ includes(msg, W_econnrefused)

isTransientError(error) ==
    IF error.statusCode = Some(429) \/ error.statusCode = Some(503) THEN TRUE
    ELSE LET msg == toLowerCase(error.message) IN
         \/ includes(msg, W_timeout)
         \/ includes(msg, W_network)
         \/ includes(msg, W_econnrefused)

\* variant: delays[attempt] || 1000 (a configured delay of 0 is replaced)
BackoffDelay_Or(delays, k) ==
    IF k + 1 \in DOMAIN delays /\ delays[k + 1] # 0 THEN delays[k + 1] ELSE 1000

\* variant: past the end of the list the last configured delay is reused
BackoffDelay_Clamp(delays, k) ==
    IF k + 1 \in DOMAIN delays THEN delays[k + 1]
    ELSE IF delays # <<>> THEN delays[Len(delays)] ELSE 1000

\* this.retryConfig.delays[attempt] ?? 1000   (k: the 0-based attempt)
BackoffDelay(delays, k) ==
    IF k + 1 \in DOMAIN delays THEN delays[k + 1] ELSE 1000

\* variant: the loop index is reported instead of the count
AttemptsMade_Index(k) == k

\* attempts: attempt + 1   (the count reported in a failure's context)
AttemptsMade(k) == k + 1

\* variant: the loop gives up one attempt early
IsLastAttempt_Early(k, rc) == k >= rc.maxAttempts - 2

\* variant: an error on the last attempt is retried like any other
IsLastAttempt_Never(k, rc) == FALSE

\* attempt === this.retryConfig.maxAttempts - 1
IsLastAttempt(k, rc) == k = rc.maxAttempts - 1

\* variant: an exception thrown by the last attempt is not caught
AttemptOutcome_Rethrow(reply, k, rc) ==
    IF reply.kind = "throw"
    THEN IF k < rc.maxAttempts - 1
         THEN [next |-> "sleep", ms |-> BackoffDelay(rc.delays, k)]
         ELSE [next |-> "return",
               result |-> [kind |-> "Rejected", message |-> reply.message]]
    ELSE IF reply.error # None
    THEN LET error == reply.error[1] IN
         IF ~isTransientError(error) \/ IsLastAttempt(k, rc)
         THEN [next |-> "return",
               result |-> ErrOf("Failed to send alert email",
                                [error |-> error.message, attempts |-> AttemptsMade(k)])]
         ELSE [next |-> "sleep", ms |-> BackoffDelay(rc.delays, k)]
    ELSE IF reply.data = None \/ reply.data[1].id = ""
    THEN [next |-> "return",
          result |-> ErrOf("Invalid response from mailer", [response |-> reply.data])]
    ELSE [next |-> "return", result |-> OkOf(reply.data[1].id)]

\* variant: a result without a message id is retried while attempts remain
AttemptOutcome_RetryInvalid(reply, k, rc) ==
    IF reply.kind = "throw"
    THEN IF k < rc.maxAttempts - 1
         THEN [next |-> "sleep", ms |-> BackoffDelay(rc.delays, k)]
         ELSE [next |-> "return",
               result |-> ErrOf("Failed to send alert email after retries",
                                [error |-> reply.message, attempts |-> AttemptsMade(k)])]
    ELSE IF reply.error # None
    THEN LET error == reply.error[1] IN
         IF ~isTransientError(error) \/ IsLastAttempt(k, rc)
         THEN [next |-> "return",
               result |-> ErrOf("Failed to send alert email",
                                [error |-> error.message, attempts |-> AttemptsMade(k)])]
         ELSE [next |-> "sleep", ms |-> BackoffDelay(rc.delays, k)]
    ELSE IF reply.data = None \/ reply.data[1].id = ""
    THEN IF k < rc.maxAttempts - 1
         THEN [next |-> "sleep", ms |-> BackoffDelay(rc.delays, k)]
         ELSE [next |-> "return",
               result |-> ErrOf("Invalid response from mailer", [response |-> reply.data])]
    ELSE [next |-> "return", result |-> OkOf(reply.data[1].id)]

\* The body of one iteration of sendWithRetry's loop once mailer.send has
\* settled with `reply`: either the loop returns a result, or it sleeps.
AttemptOutcome(reply, k, rc) ==
    IF reply.kind = "throw"
    THEN \* catch (error)
         IF k < rc.maxAttempts - 1
         THEN [next |-> "sleep", ms |-> BackoffDelay(rc.delays, k)]
         ELSE [next |-> "return",
               result |-> ErrOf("Failed to send alert email after retries",
                                [error |-> reply.message, attempts |-> AttemptsMade(k)])]
    ELSE IF reply.error # None
    THEN LET error == reply.error[1] IN
         IF ~isTransientError(error) \/ IsLastAttempt(k, rc)
         THEN [next |-> "return",
               result |-> ErrOf("Failed to send alert email",
                                [error |-> error.message, attempts |-> AttemptsMade(k)])]
         ELSE [next |-> "sleep", ms |-> BackoffDelay(rc.delays, k)]
    ELSE IF reply.data = None \/ reply.data[1].id = ""
    THEN [next |-> "return",
          result |-> ErrOf("Invalid response from mailer", [response |-> reply.data])]
    ELSE [next |-> "return", result |-> OkOf(reply.data[1].id)]

\* sendCustomEmail once its single mailer.send has settled
CustomOutcome(reply) ==
    IF reply.kind = "throw"
    THEN [kind |-> "Rejected", message |-> reply.message]
    ELSE IF reply.error # None \/ reply.data = None
    THEN ErrOf("Failed to send custom email",
               IF reply.error = None THEN None ELSE Some(reply.error[1].message))
    ELSE OkOf(reply.data[1].id)

\* ------------------------------------------------------------------------
\* FailureDetector (failure-detector.ts): configuration and helpers
\* ------------------------------------------------------------------------

DEFAULT_THRESHOLDS == [failuresInWindow |-> 5, timeWindowMinutes |-> 10]

\* DEFAULT_DEBOUNCE_WINDOW_MS, the value the debounceWindow getter returns
\* when none is configured
DEFAULT_DEBOUNCE_WINDOW_MS == 5 * 60 * 1000

\* the worker names reported in the model
Workers == {"worker-A", "worker-B"}

\* ALERT_THRESHOLDS values explored
ThresholdInputs == [failuresInWindow : {1, 2}, timeWindowMinutes : {1}]

\* The clock advances by one minute at a time, the length of the windows
\* explored: a timestamp is then seen inside the window, exactly on its
\* lower bound, and outside it.
ClockStepMs == 60 * 1000

\* ALERT_THRESHOLDS.timeWindowMinutes * 60 * 1000
timeWindowMs == thresholds.timeWindowMinutes * 60 * 1000

\* new Date(t - timeWindowMs)
cutoffTime(t) == t - timeWindowMs

\* variant: timestamp > cutoffTime (the lower bound is excluded)
RecentFailures_Exclusive(failures, t) ==
    SelectSeq(failures, LAMBDA timestamp : timestamp > cutoffTime(t))

\* failures.filter((timestamp) => timestamp >= cutoffTime)
\* variant: nothing is evicted
RecentFailures_NoEvict(failures, t) == failures

RecentFailures(failures, t) ==
    SelectSeq(failures, LAMBDA timestamp : timestamp >= cutoffTime(t))

\* Map.prototype.has / get(...) || [] / set / delete / clear
MapHas(m, k) == k \in DOMAIN m

MapGetOrEmpty(m, k) == IF MapHas(m, k) THEN m[k] ELSE <<>>

\* variant: a set stores the value under every key of the map
MapSet_Shared(m, k, v) == [x \in DOMAIN m \cup {k} |-> v]

MapSet(m, k, v) == [x \in DOMAIN m \cup {k} |-> IF x = k THEN v ELSE m[x]]

MapDelete(m, k) == [x \in DOMAIN m \ {k} |-> m[x]]

EmptyMap == [x \in {} |-> <<>>]

\* FailureDetector.getFailureCount(workerName), evaluated at the clock's time
getFailureCount(w) ==
    Len(RecentFailures(MapGetOrEmpty(failureHistory, w), now))

\* variant: the threshold is taken as reached one failure early
ThresholdExceeded_Early(recentFailures) ==
    Len(recentFailures) + 1 >= thresholds.failuresInWindow

\* variant: the threshold must be passed, reaching it is not enough
ThresholdExceeded_Above(recentFailures) ==
    Len(recentFailures) > thresholds.failuresInWindow

\* recentFailures.length >= ALERT_THRESHOLDS.failuresInWindow
ThresholdExceeded(recentFailures) ==
    Len(recentFailures) >= thresholds.failuresInWindow

\* the alert trackJobFailure passes to sendAlert
RepeatedFailuresAlert(w, t, recentFailures) ==
    [type |-> "REPEATED_FAILURES", severity |-> "HIGH", workerName |-> w,
     timestamp |-> t,
     context |-> [failureCount |-> Len(recentFailures),
                  timeWindowMinutes |-> thresholds.timeWindowMinutes]]

\* the detector as constructed, with no report made
DetectorIdle ==
    /\ now = 0
    /\ failureHistory = EmptyMap
    /\ trackCalls = <<>>
    /\ lastRead = None
    /\ manualReset = FALSE

\* one instance, built with the default debounce window; no getInstance or
\* isInitialized call made
LifecycleIdle ==
    /\ debounceWindowMs = DEFAULT_DEBOUNCE_WINDOW_MS
    /\ instancesBuilt = 1
    /\ lastGet = None

\* no paginated query has been constructed
NoProps == [limit |-> None, page |-> None, search |-> None]

QueryIdle ==
    /\ queryProps = NoProps
    /\ query = None

\* no sendAlert call has been made
DispatchIdle ==
    /\ calls = <<>>
    /\ mails = {}

\* a manager on which no call is in progress
CallIdle ==
    /\ op = "none"
    /\ pc = "idle"
    /\ argFrom = None
    /\ fromEmail = None
    /\ attempt = 0
    /\ renderCalls = 0
    /\ renderOutcome = "none"
    /\ sendCalls = 0
    /\ replies = <<>>
    /\ sleeps = <<>>
    /\ result = NoResult
    /\ prevCall = None

\* ------------------------------------------------------------------------
\* State machine: one AlertManager instance, one call at a time
\* ------------------------------------------------------------------------

\* AlertManager.initialize(config) / the private constructor
Init ==
    /\ DetectorIdle
    /\ DispatchIdle
    /\ LifecycleIdle
    /\ QueryIdle
    /\ thresholds = DEFAULT_THRESHOLDS
    /\ managerUp = TRUE
    /\ \E retry \in RetryInputs : retryConfig = RetryConfigOf(retry)
    /\ configFrom \in FromInputs
    /\ op = "none"
    /\ pc = "idle"
    /\ argFrom = None
    /\ fromEmail = None
    /\ attempt = 0
    /\ renderCalls = 0
    /\ renderOutcome = "none"
    /\ sendCalls = 0
    /\ replies = <<>>
    /\ sleeps = <<>>
    /\ result = NoResult
    /\ prevCall = None

\* The head of sendWithRetry's for loop with the loop variable at `a`:
\* either the next mailer.send is issued, or the loop is left and the
\* trailing Err is returned.
LoopHead(a) ==
    /\ attempt' = a
    /\ IF a < retryConfig.maxAttempts
       THEN /\ sendCalls' = sendCalls + 1
            /\ pc' = "sending"
            /\ result' = result
       ELSE /\ sendCalls' = sendCalls
            /\ pc' = "done"
            /\ result' = ErrOf("Failed to send alert email",
                               [attempts |-> retryConfig.maxAttempts])

\* sendAlerts(alerts, alertType, severity, options) up to `await render(...)`
SendAlertsCall(optionsFrom) ==
    /\ pc = "idle"
    /\ op' = "sendAlerts"
    /\ argFrom' = optionsFrom
    /\ fromEmail' = Coalesce(optionsFrom, configFrom)
    /\ IF IsFalsyString(fromEmail')
       THEN /\ result' = ErrOf("No from email provided",
                               "Provide fromEmail in config or pass it in options")
            /\ pc' = "done"
            /\ renderCalls' = renderCalls
       ELSE /\ result' = result
            /\ pc' = "rendering"
            /\ renderCalls' = renderCalls + 1
    /\ UNCHANGED <<retryConfig, configFrom, attempt, renderOutcome, sendCalls,
                   replies, sleeps>>
    /\ UNCHANGED prevCall
    /\ UNCHANGED pipelineVars

\* variant: a failed render is not caught and the send goes ahead
RenderSettles_Ignore(rendered) ==
    /\ pc = "rendering"
    /\ renderOutcome' = IF rendered THEN "ok" ELSE "failed"
    /\ LoopHead(0)
    /\ UNCHANGED <<retryConfig, configFrom, op, argFrom, fromEmail, renderCalls,
                   replies, sleeps>>
    /\ UNCHANGED prevCall
    /\ UNCHANGED pipelineVars

\* render settles: the catch block returns, or sendWithRetry is entered
RenderSettles(rendered) ==
    /\ pc = "rendering"
    /\ renderOutcome' = IF rendered THEN "ok" ELSE "failed"
    /\ IF ~rendered
       THEN /\ result' = ErrOf("Failed to render alert email template", "render error")
            /\ pc' = "done"
            /\ UNCHANGED <<attempt, sendCalls>>
       ELSE LoopHead(0)
    /\ UNCHANGED <<retryConfig, configFrom, op, argFrom, fromEmail, renderCalls,
                   replies, sleeps>>
    /\ UNCHANGED prevCall
    /\ UNCHANGED pipelineVars

\* mailer.send settles inside sendWithRetry
SendSettles(reply) ==
    /\ pc = "sending"
    /\ op = "sendAlerts"
    /\ replies' = Append(replies, reply)
    /\ LET o == AttemptOutcome(reply, attempt, retryConfig) IN
       IF o.next = "return"
       THEN /\ result' = o.result
            /\ pc' = "done"
            /\ sleeps' = sleeps
       ELSE /\ result' = result
            /\ pc' = "sleeping"
            /\ sleeps' = Append(sleeps, o.ms)
    /\ UNCHANGED <<retryConfig, configFrom, op, argFrom, fromEmail, attempt,
                   renderCalls, renderOutcome, sendCalls>>
    /\ UNCHANGED prevCall
    /\ UNCHANGED pipelineVars

\* the sleep's timer fires: `continue`, attempt++, loop head
SleepSettles ==
    /\ pc = "sleeping"
    /\ LoopHead(attempt + 1)
    /\ UNCHANGED <<retryConfig, configFrom, op, argFrom, fromEmail, renderCalls,
                   renderOutcome, replies, sleeps>>
    /\ UNCHANGED prevCall
    /\ UNCHANGED pipelineVars

\* sendCustomEmail(params) up to `await this.mailer.send(...)`
SendCustomEmailCall(paramsFrom) ==
    /\ pc = "idle"
    /\ op' = "sendCustomEmail"
    /\ argFrom' = paramsFrom
    /\ fromEmail' = Coalesce(paramsFrom, configFrom)
    /\ IF IsFalsyString(fromEmail')
       THEN /\ result' = ErrOf("No from email provided",
                               "Provide fromEmail in config or pass it in params")
            /\ pc' = "done"
            /\ sendCalls' = sendCalls
       ELSE /\ result' = result
            /\ pc' = "sending"
            /\ sendCalls' = sendCalls + 1
    /\ UNCHANGED <<retryConfig, configFrom, attempt, renderCalls, renderOutcome,
                   replies, sleeps>>
    /\ UNCHANGED prevCall
    /\ UNCHANGED pipelineVars

\* variant: sendCustomEmail goes through the retry loop of sendAlerts
CustomSendSettles_Retry(reply) ==
    /\ pc = "sending"
    /\ op = "sendCustomEmail"
    /\ replies' = Append(replies, reply)
    /\ LET o == AttemptOutcome(reply, attempt, retryConfig) IN
       IF o.next = "return"
       THEN /\ result' = o.result
            /\ pc' = "done"
            /\ sleeps' = sleeps
       ELSE /\ result' = result
            /\ pc' = "sleeping"
            /\ sleeps' = Append(sleeps, o.ms)
    /\ UNCHANGED <<retryConfig, configFrom, op, argFrom, fromEmail, attempt,
                   renderCalls, renderOutcome, sendCalls>>
    /\ UNCHANGED prevCall
    /\ UNCHANGED pipelineVars

\* mailer.send settles inside sendCustomEmail
CustomSendSettles(reply) ==
    /\ pc = "sending"
    /\ op = "sendCustomEmail"
    /\ replies' = Append(replies, reply)
    /\ result' = CustomOutcome(reply)
    /\ pc' = "done"
    /\ UNCHANGED <<retryConfig, configFrom, op, argFrom, fromEmail, attempt,
                   renderCalls, renderOutcome, sendCalls, sleeps>>
    /\ UNCHANGED prevCall
    /\ UNCHANGED pipelineVars

\* the caller has the result; the manager is ready for the next call
Return ==
    /\ pc = "done"
    /\ op' = "none"
    /\ pc' = "idle"
    /\ argFrom' = None
    /\ fromEmail' = None
    /\ attempt' = 0
    /\ renderCalls' = 0
    /\ renderOutcome' = "none"
    /\ sendCalls' = 0
    /\ replies' = <<>>
    /\ sleeps' = <<>>
    /\ result' = NoResult
    /\ prevCall' = Some([op |-> op, kind |-> result.kind])
    /\ UNCHANGED <<retryConfig, configFrom>>
    /\ UNCHANGED pipelineVars

\* variant: reset() abandons the call in progress
ResetManager_Abort ==
    /\ managerUp' = FALSE
    /\ op' = "none"
    /\ pc' = "idle"
    /\ result' = NoResult
    /\ UNCHANGED <<retryConfig, configFrom, argFrom, fromEmail, attempt, renderCalls,
                   renderOutcome, sendCalls, replies, sleeps, prevCall>>
    /\ lastGet' = None
    /\ UNCHANGED <<now, thresholds, failureHistory, trackCalls, lastRead, manualReset>>
    /\ UNCHANGED <<dispatchVars, debounceWindowMs, instancesBuilt, queryVars>>

\* AlertManager.reset(): the instance's mailer is closed and the singleton
\* slot is emptied; the instance itself, and a call running on it, go on
\* (after close() the mailer's sends still settle with one of Replies)
ResetManager ==
    /\ managerUp' = FALSE
    /\ UNCHANGED callVars
    /\ lastGet' = None
    /\ UNCHANGED <<now, thresholds, failureHistory, trackCalls, lastRead, manualReset>>
    /\ UNCHANGED <<dispatchVars, debounceWindowMs, instancesBuilt, queryVars>>

\* reset() called while a sendAlerts call is inside sendWithRetry
MidRetryReset ==
    /\ op = "sendAlerts"
    /\ pc \in {"sending", "sleeping"}
    /\ ResetManager

Next ==
    \/ \E f \in FromInputs : SendAlertsCall(f)
    \/ \E r \in BOOLEAN : RenderSettles(r)
    \/ \E reply \in Replies : SendSettles(reply)
    \/ SleepSettles
    \/ \E f \in FromInputs : SendCustomEmailCall(f)
    \/ \E reply \in Replies : CustomSendSettles(reply)
    \/ Return
    \/ MidRetryReset

Spec == Init /\ [][Next]_vars

\* ------------------------------------------------------------------------
\* State machine: sendAlerts calls of an instance with a sender address,
\* whose transporter also throws strings.  Every error reply the retry loop
\* can classify occurs: by status code, and by message alone.
\* ------------------------------------------------------------------------

InitClassify ==
    /\ DetectorIdle
    /\ DispatchIdle
    /\ LifecycleIdle
    /\ QueryIdle
    /\ CallIdle
    /\ thresholds = DEFAULT_THRESHOLDS
    /\ managerUp = TRUE
    /\ \E n \in 1..MaxAttemptsBound :
          retryConfig = RetryConfigOf([maxAttempts |-> Some(n), delays |-> None])
    /\ configFrom = Some("alerts@lec.dev")

NextClassify ==
    \/ SendAlertsCall(None)
    \/ \E r \in BOOLEAN : RenderSettles(r)
    \/ \E reply \in ClassifierReplies : SendSettles(reply)
    \/ SleepSettles
    \/ Return

SpecClassify == InitClassify /\ [][NextClassify]_vars

\* ------------------------------------------------------------------------
\* State machine: the FailureDetector, with overlapping trackJobFailure
\* calls.  The sendAlert a call awaits is a sendAlerts call of the manager
\* above; trackJobFailure discards its Result, so here the send settles at
\* any later step and what it returned is not recorded.
\* ------------------------------------------------------------------------

InitDetector ==
    /\ DetectorIdle
    /\ thresholds \in ThresholdInputs
    /\ managerUp \in BOOLEAN
    /\ retryConfig = DEFAULT_RETRY_CONFIG
    /\ configFrom = Some("alerts@lec.dev")
    /\ CallIdle
    /\ DispatchIdle
    /\ LifecycleIdle
    /\ QueryIdle

\* time passes
Tick ==
    /\ now < MaxTicks * ClockStepMs
    /\ now' = now + ClockStepMs
    /\ lastRead' = None
    /\ UNCHANGED <<thresholds, managerUp, failureHistory, trackCalls, manualReset>>
    /\ UNCHANGED callVars
    /\ UNCHANGED dispatchVars
    /\ UNCHANGED lifecycleVars
    /\ UNCHANGED queryVars

\* trackJobFailure(jobId, workerName, error) up to `await ...sendAlert(...)`:
\* the call returns at once below the threshold, rejects when
\* AlertManager.getInstance() throws, and otherwise awaits the send.
TrackJobFailure(w) ==
    /\ Len(trackCalls) < MaxReports
    /\ LET failures == Append(MapGetOrEmpty(failureHistory, w), now)
           recentFailures == RecentFailures(failures, now)
           exceeded == ThresholdExceeded(recentFailures)
       IN /\ failureHistory' = MapSet(failureHistory, w, recentFailures)
          /\ trackCalls' = Append(trackCalls,
                [worker |-> w,
                 at |-> now,
                 count |-> Len(recentFailures),
                 status |-> IF ~exceeded THEN "resolved"
                            ELSE IF managerUp THEN "awaiting" ELSE "rejected",
                 alert |-> IF exceeded /\ managerUp
                           THEN Some(RepeatedFailuresAlert(w, now, recentFailures))
                           ELSE None])
    /\ lastRead' = None
    /\ UNCHANGED <<now, thresholds, managerUp, manualReset>>
    /\ UNCHANGED callVars
    /\ UNCHANGED dispatchVars
    /\ UNCHANGED lifecycleVars
    /\ UNCHANGED queryVars

\* variant: the send settles and the call resolves, the history is kept
SendAlertSettles_KeepHistory(i) ==
    /\ i \in DOMAIN trackCalls
    /\ trackCalls[i].status = "awaiting"
    /\ trackCalls' = [trackCalls EXCEPT ![i].status = "resolved"]
    /\ lastRead' = None
    /\ UNCHANGED <<now, thresholds, managerUp, manualReset, failureHistory>>
    /\ UNCHANGED callVars
    /\ UNCHANGED dispatchVars
    /\ UNCHANGED lifecycleVars
    /\ UNCHANGED queryVars

\* the awaited sendAlert of call i settles (with Ok or with Err): the
\* worker's history is reset and the call resolves
SendAlertSettles(i) ==
    /\ i \in DOMAIN trackCalls
    /\ trackCalls[i].status = "awaiting"
    /\ failureHistory' = MapSet(failureHistory, trackCalls[i].worker, <<>>)
    /\ trackCalls' = [trackCalls EXCEPT ![i].status = "resolved"]
    /\ lastRead' = None
    /\ UNCHANGED <<now, thresholds, managerUp, manualReset>>
    /\ UNCHANGED callVars
    /\ UNCHANGED dispatchVars
    /\ UNCHANGED lifecycleVars
    /\ UNCHANGED queryVars

\* variant: the read stores the trimmed window it counted
GetFailureCount_WriteBack(w) ==
    /\ lastRead' = Some([worker |-> w, count |-> getFailureCount(w)])
    /\ failureHistory' = MapSet(failureHistory, w,
                                RecentFailures(MapGetOrEmpty(failureHistory, w), now))
    /\ UNCHANGED <<now, thresholds, managerUp, trackCalls, manualReset>>
    /\ UNCHANGED callVars
    /\ UNCHANGED dispatchVars
    /\ UNCHANGED lifecycleVars
    /\ UNCHANGED queryVars

\* getFailureCount(workerName)
GetFailureCount(w) ==
    /\ lastRead' = Some([worker |-> w, count |-> getFailureCount(w)])
    /\ UNCHANGED <<now, thresholds, managerUp, failureHistory, trackCalls, manualReset>>
    /\ UNCHANGED callVars
    /\ UNCHANGED dispatchVars
    /\ UNCHANGED lifecycleVars
    /\ UNCHANGED queryVars

\* variant: resetting one worker drops every worker's history
ResetFailureHistory_All(w) ==
    /\ failureHistory' = EmptyMap
    /\ lastRead' = None
    /\ manualReset' = TRUE
    /\ UNCHANGED <<now, thresholds, managerUp, trackCalls>>
    /\ UNCHANGED callVars
    /\ UNCHANGED dispatchVars
    /\ UNCHANGED lifecycleVars
    /\ UNCHANGED queryVars

\* resetFailureHistory(workerName)
ResetFailureHistory(w) ==
    /\ failureHistory' = MapDelete(failureHistory, w)
    /\ lastRead' = None
    /\ manualReset' = TRUE
    /\ UNCHANGED <<now, thresholds, managerUp, trackCalls>>
    /\ UNCHANGED callVars
    /\ UNCHANGED dispatchVars
    /\ UNCHANGED lifecycleVars
    /\ UNCHANGED queryVars

\* clearAll()
ClearAll ==
    /\ failureHistory' = EmptyMap
    /\ lastRead' = None
    /\ manualReset' = TRUE
    /\ UNCHANGED <<now, thresholds, managerUp, trackCalls>>
    /\ UNCHANGED callVars
    /\ UNCHANGED dispatchVars
    /\ UNCHANGED lifecycleVars
    /\ UNCHANGED queryVars

NextDetector ==
    \/ Tick
    \/ \E w \in Workers : TrackJobFailure(w)
    \/ \E i \in 1..MaxReports : SendAlertSettles(i)
    \/ \E w \in Workers : GetFailureCount(w)
    \/ \E w \in Workers : ResetFailureHistory(w)
    \/ ClearAll

SpecDetector == InitDetector /\ [][NextDetector]_vars

\* ------------------------------------------------------------------------
\* State machine: overlapping sendAlert calls on one AlertManager.  Each
\* call runs sendAlerts for its own single alert: render, then the
\* sendWithRetry loop; every mailer.send() a call issues is recorded with
\* the alerts it carries.  The clock never goes back, so a send on record
\* was issued at or before the current time.
\* ------------------------------------------------------------------------

\* the alert types and severities the calls are made with
AlertInputs ==
    {[type |-> "JOB_FAILURE", severity |-> "CRITICAL"],
     [type |-> "REPEATED_FAILURES", severity |-> "HIGH"]}

\* the mailer replies the overlapping calls receive: a success, a 503, a
\* 401 and a rejection
DispatchReplies ==
    {NodemailerSend([kind |-> "sent", messageId |-> "msg-1"]),
     NodemailerSend([kind |-> "raise", isError |-> TRUE, message |-> MsgEconnrefused]),
     NodemailerSend([kind |-> "raise", isError |-> TRUE, message |-> MsgAuth]),
     [kind |-> "throw", message |-> MsgBoom]}

\* the clock advances by 10 ms (two arrivals close together) or by a whole
\* debounce window
ShortStepMs == 10

ClockSteps == {ShortStepMs, DEFAULT_DEBOUNCE_WINDOW_MS}

\* getAlertSubject(severity, alertType), without the icon
getAlertSubject(severity, alertType) == <<severity, alertType>>

\* variant: the send carries the alerts of every call still in progress
MailOf_Pooled(c, i, a) ==
    [call |-> i,
     subject |-> getAlertSubject(c.alert.severity, c.alert.type),
     alerts |-> SelectSeq([j \in DOMAIN calls |-> calls[j].alert],
                          LAMBDA x : x.id = i \/ calls[x.id].pc # "done"),
     attempt |-> a]

\* what call i (record c) passes to mailer.send at attempt a: the subject
\* of its type and the html rendered from its own alerts
MailOf(c, i, a) ==
    [call |-> i,
     subject |-> getAlertSubject(c.alert.severity, c.alert.type),
     alerts |-> <<c.alert>>,
     attempt |-> a]

\* the head of sendWithRetry's loop for call i (record c), loop variable a
DispatchLoopHead(c, i, a) ==
    IF a < retryConfig.maxAttempts
    THEN [call |-> [c EXCEPT !.attempt = a, !.pc = "sending"],
          mail |-> Some(MailOf(c, i, a))]
    ELSE [call |-> [c EXCEPT !.attempt = a, !.pc = "done",
                             !.result = ErrOf("Failed to send alert email",
                                              [attempts |-> retryConfig.maxAttempts])],
          mail |-> None]

\* the detector's state, which the overlapping calls leave alone
detectorStore == <<thresholds, managerUp, failureHistory, trackCalls, lastRead,
                   manualReset>>

InitDispatch ==
    /\ DetectorIdle
    /\ DispatchIdle
    /\ LifecycleIdle
    /\ QueryIdle
    /\ thresholds = DEFAULT_THRESHOLDS
    /\ managerUp = TRUE
    /\ retryConfig = RetryConfigOf([maxAttempts |-> Some(2), delays |-> None])
    /\ configFrom = Some("alerts@lec.dev")
    /\ CallIdle

\* time passes
DispatchTick(d) ==
    /\ d = ShortStepMs
          => now % DEFAULT_DEBOUNCE_WINDOW_MS < ShortStepMs * (MaxAlerts - 1)
    /\ d = DEFAULT_DEBOUNCE_WINDOW_MS => now < DEFAULT_DEBOUNCE_WINDOW_MS
    /\ now' = now + d
    /\ UNCHANGED <<detectorStore, dispatchVars, callVars>>
    /\ UNCHANGED lifecycleVars
    /\ UNCHANGED queryVars

\* sendAlert(alert) up to `await render(...)`
SendAlert(alertIn) ==
    /\ Len(calls) < MaxAlerts
    /\ LET i == Len(calls) + 1
           alert == [type |-> alertIn.type, severity |-> alertIn.severity, id |-> i]
           from == Coalesce(None, configFrom)
       IN calls' = Append(calls,
              [alert |-> alert,
               arrivedAt |-> now,
               attempt |-> 0,
               pc |-> IF IsFalsyString(from) THEN "done" ELSE "rendering",
               result |-> IF IsFalsyString(from)
                          THEN ErrOf("No from email provided",
                                     "Provide fromEmail in config or pass it in options")
                          ELSE NoResult])
    /\ UNCHANGED <<now, detectorStore, mails, callVars>>
    /\ UNCHANGED lifecycleVars
    /\ UNCHANGED queryVars

\* variant: a render settles only while no call is sleeping
DispatchRenderSettles_Locked(i, rendered) ==
    /\ i \in DOMAIN calls
    /\ calls[i].pc = "rendering"
    /\ \A j \in DOMAIN calls : calls[j].pc # "sleeping"
    /\ IF ~rendered
       THEN /\ calls' = [calls EXCEPT
                           ![i].pc = "done",
                           ![i].result = ErrOf("Failed to render alert email template",
                                               "render error")]
            /\ mails' = mails
       ELSE LET h == DispatchLoopHead(calls[i], i, 0) IN
            /\ calls' = [calls EXCEPT ![i] = h.call]
            /\ mails' = IF h.mail = None THEN mails ELSE mails \cup {h.mail[1]}
    /\ UNCHANGED <<now, detectorStore, callVars>>
    /\ UNCHANGED lifecycleVars
    /\ UNCHANGED queryVars

\* the render of call i settles
DispatchRenderSettles(i, rendered) ==
    /\ i \in DOMAIN calls
    /\ calls[i].pc = "rendering"
    /\ IF ~rendered
       THEN /\ calls' = [calls EXCEPT
                           ![i].pc = "done",
                           ![i].result = ErrOf("Failed to render alert email template",
                                               "render error")]
            /\ mails' = mails
       ELSE LET h == DispatchLoopHead(calls[i], i, 0) IN
            /\ calls' = [calls EXCEPT ![i] = h.call]
            /\ mails' = IF h.mail = None THEN mails ELSE mails \cup {h.mail[1]}
    /\ UNCHANGED <<now, detectorStore, callVars>>
    /\ UNCHANGED lifecycleVars
    /\ UNCHANGED queryVars

\* the mailer.send of call i settles
DispatchSendSettles(i, reply) ==
    /\ i \in DOMAIN calls
    /\ calls[i].pc = "sending"
    /\ LET o == AttemptOutcome(reply, calls[i].attempt, retryConfig) IN
       calls' = IF o.next = "return"
                THEN [calls EXCEPT ![i].pc = "done", ![i].result = o.result]
                ELSE [calls EXCEPT ![i].pc = "sleeping"]
    /\ UNCHANGED <<now, detectorStore, mails, callVars>>
    /\ UNCHANGED lifecycleVars
    /\ UNCHANGED queryVars

\* the backoff sleep of call i ends
DispatchSleepSettles(i) ==
    /\ i \in DOMAIN calls
    /\ calls[i].pc = "sleeping"
    /\ LET h == DispatchLoopHead(calls[i], i, calls[i].attempt + 1) IN
       /\ calls' = [calls EXCEPT ![i] = h.call]
       /\ mails' = IF h.mail = None THEN mails ELSE mails \cup {h.mail[1]}
    /\ UNCHANGED <<now, detectorStore, callVars>>
    /\ UNCHANGED lifecycleVars
    /\ UNCHANGED queryVars

NextDispatch ==
    \/ \E d \in ClockSteps : DispatchTick(d)
    \/ \E a \in AlertInputs : SendAlert(a)
    \/ \E i \in 1..MaxAlerts, r \in BOOLEAN : DispatchRenderSettles(i, r)
    \/ \E i \in 1..MaxAlerts, reply \in DispatchReplies : DispatchSendSettles(i, reply)
    \/ \E i \in 1..MaxAlerts : DispatchSleepSettles(i)

SpecDispatch == InitDispatch /\ [][NextDispatch]_vars

\* ------------------------------------------------------------------------
\* State machine: the AlertManager singleton (initialize, getInstance,
\* isInitialized, reset), with no call in progress.  While the slot is
\* empty the configuration variables keep the values of the last instance.
\* ------------------------------------------------------------------------

\* The constructor's thresholdsConfig, from the optional config.thresholds
\* fields
ThresholdsOf(th) ==
    [failuresInWindow  |-> Coalesce(th.failuresInWindow,
                                    Some(DEFAULT_THRESHOLDS.failuresInWindow))[1],
     timeWindowMinutes |-> Coalesce(th.timeWindowMinutes,
                                    Some(DEFAULT_THRESHOLDS.timeWindowMinutes))[1]]

\* The constructor's debounceWindowMs
DebounceOf(configured) == Coalesce(configured, Some(DEFAULT_DEBOUNCE_WINDOW_MS))[1]

\* the configurations passed to initialize
ConfigInputs ==
    [retry            : {r \in RetryInputs : /\ r.maxAttempts \in {None, Some(1)}
                                            /\ r.delays \in {None, Some(<<700>>)}},
     thresholds       : [failuresInWindow : {None, Some(2)},
                         timeWindowMinutes : {None, Some(1)}],
     debounceWindowMs : {None, Some(1000)},
     fromEmail        : {None, Some("alerts@lec.dev")}]

\* the locals of a call, the detector and the overlapping calls: what the
\* singleton's methods leave alone
outsideLifecycle ==
    <<op, pc, argFrom, fromEmail, attempt, renderCalls, renderOutcome, sendCalls,
      replies, sleeps, result, prevCall,
      now, failureHistory, trackCalls, lastRead, manualReset, dispatchVars,
      queryVars>>

InitLifecycle ==
    /\ QueryIdle
    /\ DetectorIdle
    /\ DispatchIdle
    /\ CallIdle
    /\ managerUp = FALSE
    /\ instancesBuilt = 0
    /\ lastGet = None
    /\ retryConfig = DEFAULT_RETRY_CONFIG
    /\ thresholds = DEFAULT_THRESHOLDS
    /\ debounceWindowMs = DEFAULT_DEBOUNCE_WINDOW_MS
    /\ configFrom = None

\* variant: initialize always builds a new instance from the configuration
Initialize_Overwrite(config) ==
    /\ instancesBuilt < MaxInstances
    /\ managerUp' = TRUE
    /\ instancesBuilt' = instancesBuilt + 1
    /\ retryConfig' = RetryConfigOf(config.retry)
    /\ thresholds' = ThresholdsOf(config.thresholds)
    /\ debounceWindowMs' = DebounceOf(config.debounceWindowMs)
    /\ configFrom' = config.fromEmail
    /\ lastGet' = None
    /\ UNCHANGED outsideLifecycle

\* AlertManager.initialize(config)
Initialize(config) ==
    /\ IF managerUp
       THEN UNCHANGED <<managerUp, instancesBuilt, retryConfig, thresholds,
                        debounceWindowMs, configFrom>>
       ELSE /\ instancesBuilt < MaxInstances
            /\ managerUp' = TRUE
            /\ instancesBuilt' = instancesBuilt + 1
            /\ retryConfig' = RetryConfigOf(config.retry)
            /\ thresholds' = ThresholdsOf(config.thresholds)
            /\ debounceWindowMs' = DebounceOf(config.debounceWindowMs)
            /\ configFrom' = config.fromEmail
    /\ lastGet' = None
    /\ UNCHANGED outsideLifecycle

\* AlertManager.getInstance()
GetInstance ==
    /\ lastGet' = Some([call |-> "getInstance", threw |-> ~managerUp, value |-> managerUp])
    /\ UNCHANGED <<managerUp, instancesBuilt, retryConfig, thresholds,
                   debounceWindowMs, configFrom>>
    /\ UNCHANGED outsideLifecycle

\* AlertManager.isInitialized()
IsInitialized ==
    /\ lastGet' = Some([call |-> "isInitialized", threw |-> FALSE, value |-> managerUp])
    /\ UNCHANGED <<managerUp, instancesBuilt, retryConfig, thresholds,
                   debounceWindowMs, configFrom>>
    /\ UNCHANGED outsideLifecycle

NextLifecycle ==
    \/ \E config \in ConfigInputs : Initialize(config)
    \/ ResetManager
    \/ GetInstance
    \/ IsInitialized

SpecLifecycle == InitLifecycle /\ [][NextLifecycle]_vars

\* ------------------------------------------------------------------------
\* PaginatedQueryBase (ddd-tools, query.base.ts): the constructor.  A
\* JavaScript number is [nan, val]: NaN, or the integer val.  orderBy and
\* filters are copied like search and are left out.
\* ------------------------------------------------------------------------

Num(n) == [nan |-> FALSE, val |-> n]

NaN == [nan |-> TRUE, val |-> 0]

\* an optional number is falsy: undefined, 0 or NaN
IsFalsyNumber(o) == o = None \/ o[1].nan \/ o[1].val = 0

\* o || d
OrDefault(o, d) == IF IsFalsyNumber(o) THEN d ELSE o[1].val

\* variant: the offset is page * limit
OffsetOf_NoShift(page, limit) ==
    IF ~IsFalsyNumber(page) /\ page[1].val > 1
    THEN page[1].val * limit
    ELSE 0

\* props.page && props.page > 1 ? (props.page - 1) * this.limit : 0
OffsetOf(page, limit) ==
    IF ~IsFalsyNumber(page) /\ page[1].val > 1
    THEN (page[1].val - 1) * limit
    ELSE 0

\* the fields the constructor sets
PaginatedQuery(props) ==
    LET limit == OrDefault(props.limit, 20) IN
    [limit  |-> limit,
     offset |-> OffsetOf(props.page, limit),
     page   |-> OrDefault(props.page, 1),
     search |-> props.search]

\* the numbers passed as limit and as page
NumberInputs == {None, Some(NaN)} \cup {Some(Num(n)) : n \in -1..MaxNumber}

PropsInputs ==
    [limit  : NumberInputs,
     page   : NumberInputs,
     search : {None, Some(""), Some("abc")}]

InitQuery ==
    /\ QueryIdle
    /\ DetectorIdle
    /\ DispatchIdle
    /\ LifecycleIdle
    /\ CallIdle
    /\ managerUp = TRUE
    /\ retryConfig = DEFAULT_RETRY_CONFIG
    /\ thresholds = DEFAULT_THRESHOLDS
    /\ configFrom = None

\* new (a subclass of) PaginatedQueryBase(props)
NewQuery(props) ==
    /\ queryProps' = props
    /\ query' = Some(PaginatedQuery(props))
    /\ UNCHANGED <<callVars, detectorVars, dispatchVars, lifecycleVars>>

NextQuery == \E props \in PropsInputs : NewQuery(props)

SpecQuery == InitQuery /\ [][NextQuery]_vars

\* ------------------------------------------------------------------------
\* Vocabulary of the properties
\* ------------------------------------------------------------------------

RECURSIVE SumSeq(_)
SumSeq(q) == IF q = <<>> THEN 0 ELSE q[1] + SumSeq(Tail(q))

\* the mailer replied with an error object
IsErrorReply(r) == r.kind = "result" /\ r.error # None

\* the mailer replied with data carrying a message id, and no error
IsSuccessReply(r) ==
    r.kind = "result" /\ r.error = None /\ r.data # None /\ r.data[1].id # ""

HasStatus(r, code) == IsErrorReply(r) /\ r.error[1].statusCode = Some(code)

\* Transient as section 4.3 of the specification words it: status 429 or
\* 503, or a message indicating timeout, network failure or connection
\* refusal.
SpecTransient(r) ==
    /\ IsErrorReply(r)
    /\ \/ r.error[1].statusCode \in {Some(429), Some(503)}
       \/ \E w \in {W_timeout, W_network, W_econnrefused} :
              includes(toLowerCase(r.error[1].message), w)

SpecTerminal(r) == IsErrorReply(r) /\ ~SpecTransient(r)

\* a sendAlerts call that had a sender address and a successful render
InRetryLoop == op = "sendAlerts" /\ renderOutcome = "ok"

LoopReturned == InRetryLoop /\ pc = "done"

LastReply == replies[Len(replies)]

\* no sender address: undefined or empty
NoSender(o) == o = None \/ o = Some("")

\* the sleep the code takes after a failed attempt k when delays[k] is missing
FallbackDelayMs == 1000

\* delays[k] of the claims (k 0-based), where the list has such an entry
HasDelay(k) == k + 1 \in DOMAIN retryConfig.delays

DelayAt(k) == retryConfig.delays[k + 1]

\* ------------------------------------------------------------------------
\* C1 - When every send returns an error with statusCode 503, sendAlerts
\* (sender address present, render successful) makes exactly maxAttempts
\* send calls; the sleep between attempt k and attempt k+1 is delays[k]
\* (wherever the list has an entry k), in that order, and there is no sleep
\* after the last attempt.
\* ------------------------------------------------------------------------
C1_Retry503 ==
    (LoopReturned /\ \A i \in DOMAIN replies : HasStatus(replies[i], 503))
    => /\ sendCalls = retryConfig.maxAttempts
       /\ Len(replies) = sendCalls
       /\ Len(sleeps) = (IF sendCalls = 0 THEN 0 ELSE sendCalls - 1)
       /\ \A k \in 0..(Len(sleeps) - 1) : HasDelay(k) => sleeps[k + 1] = DelayAt(k)

C1_Witness ==
    /\ LoopReturned
    /\ retryConfig = [maxAttempts |-> 3, delays |-> <<1000, 2000, 4000>>]
    /\ Len(replies) = 3
    /\ \A i \in DOMAIN replies : HasStatus(replies[i], 503)
    /\ sendCalls = 3
    /\ sleeps = <<1000, 2000>>

\* ------------------------------------------------------------------------
\* C2 - A transport error with statusCode 401 is never retried, whatever
\* its message: sendAlerts makes exactly one send call and returns a
\* failure.  (Stated for maxAttempts >= 1, as the retry policy requires.)
\* ------------------------------------------------------------------------
C2_Never401Retry ==
    (InRetryLoop /\ retryConfig.maxAttempts >= 1
        /\ replies # <<>> /\ HasStatus(replies[1], 401))
    => /\ sendCalls = 1
       /\ sleeps = <<>>
       /\ pc = "done"
       /\ result.kind = "Err"

\* ------------------------------------------------------------------------
\* C3 - If the first k sends (0 <= k < maxAttempts) fail with a transient
\* error and send k+1 succeeds with a message id, sendAlerts returns a
\* success carrying that id, exactly k+1 send calls are made, and the total
\* sleep is delays[0] + ... + delays[k-1] (the list having those entries).
\* After k < maxAttempts transient failures the call has not returned: it
\* sleeps and sends again.
\* ------------------------------------------------------------------------
C3_SuccessAfterTransient ==
    /\ (InRetryLoop /\ Len(replies) < retryConfig.maxAttempts
          /\ \A i \in DOMAIN replies : SpecTransient(replies[i]))
       => /\ pc \in {"sleeping", "sending"}
          /\ Len(sleeps) = Len(replies)
    /\ (InRetryLoop /\ replies # <<>> /\ IsSuccessReply(LastReply)
          /\ \A i \in 1..(Len(replies) - 1) : SpecTransient(replies[i]))
       => /\ pc = "done"
          /\ result = OkOf(LastReply.data[1].id)
          /\ sendCalls = Len(replies)
          /\ Len(sleeps) = Len(replies) - 1
          /\ (\A k \in 0..(Len(sleeps) - 1) : HasDelay(k))
                => SumSeq(sleeps) = SumSeq(SubSeq(retryConfig.delays, 1, Len(sleeps)))

C3_Witness ==
    /\ LoopReturned
    /\ retryConfig = [maxAttempts |-> 3, delays |-> <<1000, 2000, 4000>>]
    /\ Len(replies) = 3
    /\ SpecTransient(replies[1]) /\ SpecTransient(replies[2])
    /\ IsSuccessReply(replies[3])
    /\ result = OkOf("msg-1")
    /\ sendCalls = 3
    /\ SumSeq(sleeps) = 3000

\* ------------------------------------------------------------------------
\* C4 - When all maxAttempts sends fail with transient errors, sendAlerts
\* returns a failure whose attempt count equals maxAttempts (and it does not
\* return before that many sends); when the send on the final allowed
\* attempt succeeds, the result is a success.
\* ------------------------------------------------------------------------
C4_Exhaustion ==
    /\ (LoopReturned /\ \A i \in DOMAIN replies : SpecTransient(replies[i]))
       => /\ result.kind = "Err"
          /\ result.message = "Failed to send alert email"
          /\ result.context.attempts = retryConfig.maxAttempts
          /\ sendCalls = retryConfig.maxAttempts
    /\ (InRetryLoop /\ replies # <<>> /\ Len(replies) = retryConfig.maxAttempts
          /\ IsSuccessReply(LastReply))
       => /\ pc = "done"
          /\ result.kind = "Ok"

C4_Witness ==
    /\ LoopReturned
    /\ retryConfig.maxAttempts = 3
    /\ Len(replies) = 3
    /\ \A i \in DOMAIN replies : SpecTransient(replies[i])
    /\ result.kind = "Err"
    /\ result.context.attempts = 3

\* ------------------------------------------------------------------------
\* C5 - When the send at attempt index k returns a terminal error,
\* sendAlerts fails at once: no sleep and no further send follows, and the
\* failure carries attempts = k+1 (the number of sends made) and the
\* underlying error message.
\* ------------------------------------------------------------------------
C5_TerminalFailsAtOnce ==
    (InRetryLoop /\ replies # <<>> /\ SpecTerminal(LastReply))
    => /\ pc = "done"
       /\ result = ErrOf("Failed to send alert email",
                         [error |-> LastReply.error[1].message,
                          attempts |-> Len(replies)])
       /\ sendCalls = Len(replies)
       /\ Len(sleeps) = Len(replies) - 1

C5_Witness ==
    /\ LoopReturned
    /\ Len(replies) = 2
    /\ SpecTransient(replies[1])
    /\ SpecTerminal(replies[2])
    /\ retryConfig.maxAttempts = 3
    /\ result.context.attempts = 2
    /\ result.context.error = MsgRecipient
    /\ Len(sleeps) = 1

\* ------------------------------------------------------------------------
\* C6 - As claimed: when a transient failure occurs at attempt index k,
\* attempts remain and the delays list has no entry at index k, the backoff
\* sleep before the next attempt equals the last configured delay.
\* ------------------------------------------------------------------------
C6_ClampToLastDelay ==
    InRetryLoop =>
        \A k \in 0..(Len(sleeps) - 1) :
            (SpecTransient(replies[k + 1]) /\ ~HasDelay(k) /\ retryConfig.delays # <<>>)
            => sleeps[k + 1] = retryConfig.delays[Len(retryConfig.delays)]

\* C6 as amended - in that situation the backoff sleep is the fixed
\* fallback of 1000 ms, whatever the configured delays are (also when the
\* list is empty).
C6_FallbackDelay ==
    InRetryLoop =>
        \A k \in 0..(Len(sleeps) - 1) :
            (SpecTransient(replies[k + 1]) /\ ~HasDelay(k))
            => sleeps[k + 1] = FallbackDelayMs

C6_Witness ==
    /\ InRetryLoop
    /\ pc = "sleeping"
    /\ retryConfig = [maxAttempts |-> 3, delays |-> <<700>>]
    /\ Len(replies) = 2
    /\ SpecTransient(replies[1]) /\ SpecTransient(replies[2])
    /\ sleeps = <<700, 1000>>

\* ------------------------------------------------------------------------
\* C7 - An exception thrown by the transport during an attempt is retried
\* after the backoff delay whenever the attempt is not the final one,
\* whatever the exception's message; on the final attempt it yields a
\* failure result with attempts = maxAttempts instead of propagating.
\* ------------------------------------------------------------------------
C7_ThrownIsRetried ==
    (InRetryLoop /\ replies # <<>> /\ LastReply.kind = "throw")
    => LET k == Len(replies) - 1 IN
       IF k < retryConfig.maxAttempts - 1
       THEN /\ pc \in {"sleeping", "sending"}
            /\ Len(sleeps) = k + 1
            /\ sleeps[k + 1] = (IF HasDelay(k) THEN DelayAt(k) ELSE FallbackDelayMs)
            /\ sendCalls = (IF pc = "sleeping" THEN k + 1 ELSE k + 2)
       ELSE /\ pc = "done"
            /\ result = ErrOf("Failed to send alert email after retries",
                              [error |-> LastReply.message,
                               attempts |-> retryConfig.maxAttempts])
            /\ sendCalls = retryConfig.maxAttempts
            /\ Len(sleeps) = k

C7_Witness ==
    /\ LoopReturned
    /\ retryConfig.maxAttempts = 3
    /\ Len(replies) = 3
    /\ replies[1].kind = "throw" /\ replies[1].message = MsgAuth
    /\ replies[2].kind = "throw"
    /\ replies[3].kind = "throw"
    /\ Len(sleeps) = 2
    /\ result.kind = "Err"
    /\ result.context.attempts = 3

\* ------------------------------------------------------------------------
\* C8 - sendAlerts called with no sender address (neither options.from nor
\* config.fromEmail) returns a failure result without rendering and without
\* any transport send call, and is not retried.
\* ------------------------------------------------------------------------
C8_NoSenderFailsFast ==
    (op = "sendAlerts" /\ NoSender(argFrom) /\ NoSender(configFrom))
    => /\ pc = "done"
       /\ result.kind = "Err"
       /\ result.message = "No from email provided"
       /\ renderCalls = 0
       /\ sendCalls = 0
       /\ replies = <<>>
       /\ sleeps = <<>>

C8_Witness ==
    /\ op = "sendAlerts"
    /\ argFrom = None
    /\ configFrom = None
    /\ pc = "done"
    /\ result.kind = "Err"
    /\ renderCalls = 0
    /\ sendCalls = 0

\* ------------------------------------------------------------------------
\* C9 - When rendering the alert body fails, sendAlerts returns a failure
\* result immediately: zero transport send calls are made and the render is
\* not retried.
\* ------------------------------------------------------------------------
C9_RenderFailureFailsFast ==
    (op = "sendAlerts" /\ renderOutcome = "failed")
    => /\ pc = "done"
       /\ result.kind = "Err"
       /\ result.message = "Failed to render alert email template"
       /\ renderCalls = 1
       /\ sendCalls = 0
       /\ replies = <<>>
       /\ sleeps = <<>>

C9_Witness ==
    /\ op = "sendAlerts"
    /\ renderOutcome = "failed"
    /\ retryConfig.maxAttempts = 3
    /\ pc = "done"
    /\ result.kind = "Err"
    /\ renderCalls = 1
    /\ sendCalls = 0

\* ------------------------------------------------------------------------
\* C10 - As claimed: sendCustomEmail has the retry semantics of sendAlerts:
\* a transient transport error is retried with the configured backoff up to
\* maxAttempts attempts, and a terminal error fails after one attempt.
\* ------------------------------------------------------------------------
C10_CustomRetries ==
    (op = "sendCustomEmail" /\ replies # <<>>)
    => /\ (SpecTransient(LastReply) /\ Len(replies) < retryConfig.maxAttempts)
            => (pc \in {"sleeping", "sending"} /\ Len(sleeps) = Len(replies))
       /\ SpecTerminal(LastReply)
            => (pc = "done" /\ result.kind = "Err" /\ sendCalls = Len(replies))

\* C10 as amended - sendCustomEmail never retries: it makes exactly one
\* send call, and any error reply, transient or terminal, settles the call
\* at once with a "Failed to send custom email" failure carrying the error
\* message, with no backoff sleep, whatever maxAttempts is.
C10_CustomSingleAttempt ==
    (op = "sendCustomEmail" /\ replies # <<>>)
    => /\ pc = "done"
       /\ sendCalls = 1
       /\ Len(replies) = 1
       /\ sleeps = <<>>
       /\ renderCalls = 0
       /\ IsErrorReply(LastReply)
            => result = ErrOf("Failed to send custom email",
                              Some(LastReply.error[1].message))

C10_Witness ==
    /\ op = "sendCustomEmail"
    /\ retryConfig.maxAttempts = 3
    /\ Len(replies) = 1
    /\ HasStatus(replies[1], 503)
    /\ pc = "done"
    /\ result.kind = "Err"
    /\ sendCalls = 1
    /\ sleeps = <<>>

\* ------------------------------------------------------------------------
\* Vocabulary of the FailureDetector properties
\* ------------------------------------------------------------------------

\* the timestamps stored for worker w (none for an unknown worker)
Stored(w) == MapGetOrEmpty(failureHistory, w)

\* the number of timestamps of h lying in [t - window, t]
InWindowCount(h, t) ==
    Cardinality({i \in DOMAIN h :
                    /\ t - thresholds.timeWindowMinutes * 60 * 1000 <= h[i]
                    /\ h[i] <= t})

\* the positions in trackCalls of the reports made for worker w
ReportsOf(w) == {i \in DOMAIN trackCalls : trackCalls[i].worker = w}

\* the positions in trackCalls of the reports that forwarded an alert for w
AlertsOf(w) == {i \in ReportsOf(w) : trackCalls[i].alert # None}

\* some report for worker w is still awaiting its send
Pending(w) == \E i \in ReportsOf(w) : trackCalls[i].status = "awaiting"

\* ------------------------------------------------------------------------
\* C14 - getFailureCount(worker), evaluated at time now, returns the number
\* of that worker's stored failure timestamps t with
\* now - timeWindow <= t <= now: a timestamp exactly equal to
\* now - timeWindow is counted, and a worker with no recorded failures has
\* count 0.
\* ------------------------------------------------------------------------
C14_CountIsWindowCount ==
    lastRead # None
    => /\ lastRead[1].count = InWindowCount(Stored(lastRead[1].worker), now)
       /\ Stored(lastRead[1].worker) = <<>> => lastRead[1].count = 0

\* a read that counted two timestamps, one lying exactly on the lower bound
\* of the window and one taken at the time of the read
C14_Witness ==
    /\ lastRead # None
    /\ lastRead[1].count = 2
    /\ \E i \in DOMAIN Stored(lastRead[1].worker) :
          Stored(lastRead[1].worker)[i] = now - timeWindowMs
    /\ \E i \in DOMAIN Stored(lastRead[1].worker) :
          Stored(lastRead[1].worker)[i] = now

\* ------------------------------------------------------------------------
\* C15 - when the first failuresInWindow reports made for a worker all lie
\* within timeWindowMinutes, with the manager initialized and no manual
\* reset, exactly one of them forwards an alert: the one that reaches the
\* threshold, with a REPEATED_FAILURES alert of severity HIGH carrying the
\* count; and once that report has completed, with no further report for
\* the worker, getFailureCount for the worker is 0.
\* ------------------------------------------------------------------------

\* the positions of the first n reports made for worker w
FirstReports(w, n) ==
    {i \in ReportsOf(w) : Cardinality({j \in ReportsOf(w) : j <= i}) <= n}

\* the reports at positions F were all made within one time window
WithinOneWindow(F) ==
    \A i, j \in F :
        trackCalls[j].at - trackCalls[i].at <= thresholds.timeWindowMinutes * 60 * 1000

\* what a read of worker w's count returns now
CountNow(w) == InWindowCount(Stored(w), now)

C15_ThresholdRun(w) ==
    LET n == thresholds.failuresInWindow
        F == FirstReports(w, n)
        last == CHOOSE i \in F : \A j \in F : j <= i
    IN (/\ managerUp
        /\ ~manualReset
        /\ Cardinality(F) = n
        /\ WithinOneWindow(F))
       => /\ {i \in F : trackCalls[i].alert # None} = {last}
          /\ trackCalls[last].alert[1].type = "REPEATED_FAILURES"
          /\ trackCalls[last].alert[1].severity = "HIGH"
          /\ trackCalls[last].alert[1].workerName = w
          /\ trackCalls[last].alert[1].context.failureCount = n
          /\ (trackCalls[last].status = "resolved" /\ ReportsOf(w) = F)
                => CountNow(w) = 0

C15_OneAlertThenZero == \A w \in Workers : C15_ThresholdRun(w)

\* two reports for worker-A one minute apart reached a threshold of 2, the
\* second one's send has settled and the worker's count is back to 0
C15_Witness ==
    /\ managerUp
    /\ ~manualReset
    /\ thresholds.failuresInWindow = 2
    /\ ReportsOf("worker-A") = {1, 2}
    /\ trackCalls[1].at = 0
    /\ trackCalls[2].at = timeWindowMs
    /\ trackCalls[1].alert = None
    /\ trackCalls[2].alert # None
    /\ trackCalls[2].status = "resolved"
    /\ Stored("worker-A") = <<>>

\* ------------------------------------------------------------------------
\* C16 - a trackJobFailure call forwards an alert only when the worker's
\* window, after adding the new failure and evicting the entries older than
\* the time window, holds at least failuresInWindow timestamps; a report
\* that leaves the count below the threshold forwards nothing, resolves at
\* once and changes nothing but the worker's stored window, which becomes
\* the old one with the new timestamp added and the expired ones evicted.
\* ------------------------------------------------------------------------

\* the step is a trackJobFailure call for worker w
ReportStep(w) ==
    /\ Len(trackCalls') = Len(trackCalls) + 1
    /\ trackCalls'[Len(trackCalls')].worker = w

\* worker w's stored window with a failure at time t added and the entries
\* older than the time window evicted
WindowAfterReport(w, t) ==
    SelectSeq(Append(Stored(w), t),
              LAMBDA x : x >= t - thresholds.timeWindowMinutes * 60 * 1000)

C16_ReportStep(w) ==
    ReportStep(w)
    => LET report == trackCalls'[Len(trackCalls')]
           window == WindowAfterReport(w, now)
       IN /\ report.alert # None
                => Len(window) >= thresholds.failuresInWindow
          /\ Len(window) < thresholds.failuresInWindow
                => /\ report.alert = None
                   /\ report.status = "resolved"
                   /\ failureHistory' = [x \in DOMAIN failureHistory \cup {w} |->
                                            IF x = w THEN window ELSE failureHistory[x]]
                   /\ \A i \in DOMAIN trackCalls : trackCalls'[i] = trackCalls[i]
                   /\ UNCHANGED <<now, thresholds, managerUp>>

C16_AlertOnlyAtThreshold == [][\A w \in Workers : C16_ReportStep(w)]_vars

\* a first report under a threshold of 2: recorded, nothing forwarded
C16_Witness ==
    /\ thresholds.failuresInWindow = 2
    /\ Len(trackCalls) = 1
    /\ trackCalls[1].worker = "worker-B"
    /\ trackCalls[1].alert = None
    /\ trackCalls[1].status = "resolved"
    /\ Stored("worker-B") = <<trackCalls[1].at>>
    /\ lastRead = None

\* ------------------------------------------------------------------------
\* C17 - under any interleaving of trackJobFailure calls for one worker,
\* including reports that arrive while an escalation's send is pending, two
\* escalation alerts for the worker are never forwarded unless at least
\* failuresInWindow failures were reported after the first alert's
\* triggering report.
\* ------------------------------------------------------------------------
C17_NoDuplicateEscalation ==
    \A w \in Workers :
        \A i, j \in AlertsOf(w) :
            i < j => Cardinality({k \in ReportsOf(w) : i < k /\ k <= j})
                        >= thresholds.failuresInWindow

\* ------------------------------------------------------------------------
\* C18 - getFailureCount is a pure read: a call, made at any time and any
\* number of times, leaves the stored failure history of every worker
\* unchanged and creates no entry for an unknown worker.
\* ------------------------------------------------------------------------

\* the step is a getFailureCount call
ReadStep == lastRead' # None

C18_PureRead ==
    [][ReadStep => /\ failureHistory' = failureHistory
                   /\ DOMAIN failureHistory' = DOMAIN failureHistory
                   /\ trackCalls' = trackCalls]_vars

\* a read of a worker without an entry, made while another worker has a
\* stored failure that has expired: the read returned 0 and the map is as it
\* was
C18_Witness ==
    /\ lastRead = Some([worker |-> "worker-B", count |-> 0])
    /\ ~MapHas(failureHistory, "worker-B")
    /\ MapHas(failureHistory, "worker-A")
    /\ failureHistory["worker-A"] = <<0>>
    /\ now = 2 * timeWindowMs

\* ------------------------------------------------------------------------
\* C19 - resetFailureHistory(w) makes getFailureCount(w) equal 0 and leaves
\* the stored history of every other worker unchanged; clearAll makes
\* getFailureCount equal 0 for every worker.
\* ------------------------------------------------------------------------
C19_ResetStep(w) ==
    ResetFailureHistory(w)
    => /\ CountNow(w)' = 0
       /\ \A v \in Workers \ {w} :
             /\ MapHas(failureHistory', v) = MapHas(failureHistory, v)
             /\ Stored(v)' = Stored(v)

C19_ClearStep == ClearAll => \A w \in Workers : CountNow(w)' = 0

C19_Resets == [][(\A w \in Workers : C19_ResetStep(w)) /\ C19_ClearStep]_vars

\* worker-A was reset after a failure of its own, worker-B's failure is
\* still stored, and a read of worker-A has returned 0
C19_Witness ==
    /\ manualReset
    /\ \E i \in ReportsOf("worker-A") : trackCalls[i].at = now
    /\ ~MapHas(failureHistory, "worker-A")
    /\ Stored("worker-B") = <<now>>
    /\ lastRead = Some([worker |-> "worker-A", count |-> 0])

\* ------------------------------------------------------------------------
\* C20 - failure reports for different workers are independent: a
\* trackJobFailure call for worker A, including its escalation and the reset
\* that follows, never changes worker B's stored window or count, and
\* whether it forwards an alert is decided by A's own stored failures alone.
\* ------------------------------------------------------------------------

\* the step is the settling of an awaited send of a report for worker w
SettleStep(w) ==
    \E i \in ReportsOf(w) :
        /\ trackCalls[i].status = "awaiting"
        /\ trackCalls'[i].status = "resolved"

\* a step of a report for worker w leaves every other worker as it was
OthersUntouched(w) ==
    \A v \in Workers \ {w} :
        /\ MapHas(failureHistory', v) = MapHas(failureHistory, v)
        /\ Stored(v)' = Stored(v)
        /\ CountNow(v)' = CountNow(v)

C20_WorkerStep(w) ==
    /\ (ReportStep(w) \/ SettleStep(w)) => OthersUntouched(w)
    /\ ReportStep(w)
          => (trackCalls'[Len(trackCalls')].alert # None
                <=> /\ managerUp
                    /\ InWindowCount(Append(Stored(w), now), now)
                          >= thresholds.failuresInWindow)

C20_WorkersIndependent == [][\A w \in Workers : C20_WorkerStep(w)]_vars

\* worker-B's failure was recorded first; worker-A then escalated and was
\* reset, and worker-B's window still holds its failure
C20_Witness ==
    /\ Len(trackCalls) >= 2
    /\ trackCalls[1].worker = "worker-B"
    /\ \E i \in AlertsOf("worker-A") : trackCalls[i].status = "resolved"
    /\ MapHas(failureHistory, "worker-A")
    /\ Stored("worker-A") = <<>>
    /\ Stored("worker-B") = <<trackCalls[1].at>>
    /\ ~manualReset

\* ------------------------------------------------------------------------
\* C11 - whatever the render outcome and the sequence of transport outcomes
\* (error result, thrown exception, empty result, success), a sendAlerts
\* call settles by returning a Result, Ok or Err, and never throws or
\* rejects; and a call made after a failed one is processed as any other:
\* it starts from a manager with no call in progress and a success reply
\* settles it with Ok.
\* ------------------------------------------------------------------------
C11_AlwaysAResult ==
    /\ op = "sendAlerts" => result.kind \in {"none", "Ok", "Err"}
    /\ (op = "sendAlerts" /\ pc = "done") => result.kind \in {"Ok", "Err"}
    /\ (prevCall # None /\ prevCall[1].op = "sendAlerts")
          => prevCall[1].kind \in {"Ok", "Err"}
    /\ (prevCall # None /\ pc = "idle")
          => /\ op = "none"
             /\ result = NoResult
             /\ sendCalls = 0
             /\ replies = <<>>
             /\ sleeps = <<>>
    /\ (LoopReturned /\ replies # <<>> /\ IsSuccessReply(LastReply))
          => result = OkOf(LastReply.data[1].id)

\* after a sendAlerts call that failed, a second sendAlerts call survived a
\* thrown send, retried and returned Ok
C11_Witness ==
    /\ prevCall = Some([op |-> "sendAlerts", kind |-> "Err"])
    /\ op = "sendAlerts"
    /\ pc = "done"
    /\ Len(replies) = 2
    /\ replies[1].kind = "throw"
    /\ IsSuccessReply(replies[2])
    /\ result.kind = "Ok"

\* ------------------------------------------------------------------------
\* Vocabulary of the dispatch properties
\* ------------------------------------------------------------------------

\* the send m carries the alert of call i
Carries(m, i) == \E k \in DOMAIN m.alerts : m.alerts[k].id = i

\* the sends issued by call i
MailsOf(i) == {m \in mails : m.call = i}

\* the alert types carried by the send m
TypesIn(m) == {m.alerts[k].type : k \in DOMAIN m.alerts}

\* call i is the first call made with its alert type
FirstOfType(i) ==
    \A k \in DOMAIN calls : calls[k].alert.type = calls[i].alert.type => i <= k

\* ------------------------------------------------------------------------
\* C12 - two alerts of the same type passed to sendAlert within the
\* debounce window of the first one produce exactly one outbound send
\* carrying both alerts, issued no earlier than debounceWindowMs after the
\* first alert's arrival: a send carrying either alert carries both, no two
\* first-attempt sends carry the first alert, and while the window of the
\* first alert is running no send carrying it has been issued.
\* ------------------------------------------------------------------------
C12_DebouncedTogether ==
    \A i, j \in DOMAIN calls :
        (/\ i < j
         /\ FirstOfType(i)
         /\ calls[j].alert.type = calls[i].alert.type
         /\ calls[j].arrivedAt - calls[i].arrivedAt < DEFAULT_DEBOUNCE_WINDOW_MS)
        => /\ \A m \in mails : (Carries(m, i) \/ Carries(m, j))
                                  => (Carries(m, i) /\ Carries(m, j))
           /\ Cardinality({m \in mails : Carries(m, i) /\ m.attempt = 0}) <= 1
           /\ (\E m \in mails : Carries(m, i))
                 => now >= calls[i].arrivedAt + DEFAULT_DEBOUNCE_WINDOW_MS

\* ------------------------------------------------------------------------
\* C13 - alerts of different types are never placed in the same outbound
\* send: every send carries the alerts of one type only, the type of its
\* subject and of the call that issued it, and every call that reaches the
\* transport has sends of its own carrying exactly its alert; and a step of
\* one call (its render, a reply, a failure, a retry) changes neither the
\* state of another call nor the sends issued for it.
\* ------------------------------------------------------------------------

\* every send on record carries exactly the alert of the call that issued it
OwnSendsOnly ==
    /\ \A m \in mails :
          /\ m.call \in DOMAIN calls
          /\ m.alerts = <<calls[m.call].alert>>
          /\ TypesIn(m) = {calls[m.call].alert.type}
          /\ m.subject[2] = calls[m.call].alert.type
    /\ \A i \in DOMAIN calls :
          calls[i].pc \in {"sending", "sleeping"} => MailsOf(i) # {}

\* a step that changes call i leaves every other call and its sends alone
OtherCallsUntouched(i) ==
    (i \in DOMAIN calls /\ calls'[i] # calls[i])
    => \A j \in DOMAIN calls \ {i} :
          /\ calls'[j] = calls[j]
          /\ MailsOf(j)' = MailsOf(j)

C13_TypesNeverShareASend ==
    [][OwnSendsOnly' /\ \A i \in 1..MaxAlerts : OtherCallsUntouched(i)]_vars

\* two alerts of different types arrived at the same time: the first was
\* sent twice and failed, the second was sent once, on its own, and
\* succeeded
C13_Witness ==
    /\ Len(calls) = 2
    /\ calls[1].alert.type # calls[2].alert.type
    /\ calls[1].arrivedAt = calls[2].arrivedAt
    /\ calls[1].pc = "done"
    /\ calls[1].result.kind = "Err"
    /\ Cardinality(MailsOf(1)) = 2
    /\ calls[2].pc = "done"
    /\ calls[2].result.kind = "Ok"
    /\ Cardinality(MailsOf(2)) = 1
    /\ \A m \in MailsOf(2) : m.alerts = <<calls[2].alert>>

\* ------------------------------------------------------------------------
\* C21 - error classification is a total function of the error with two
\* buckets: an error reply received with attempts remaining is retried
\* exactly when its statusCode is 429 or 503 or its lower-cased message
\* contains "timeout", "network" or "econnrefused"; every other error
\* reply, one with no statusCode included, ends the loop at once.  Each
\* error reply falls in exactly one of the two cases.
\* ------------------------------------------------------------------------

\* reply number i of the call in progress was followed by a retry
RetriedAfter(i) == ~(pc = "done" /\ Len(replies) = i)

C21_ClassificationTotal ==
    InRetryLoop
    => \A i \in DOMAIN replies :
          (IsErrorReply(replies[i]) /\ i < retryConfig.maxAttempts)
          => /\ RetriedAfter(i) <=> SpecTransient(replies[i])
             /\ ~RetriedAfter(i) <=> SpecTerminal(replies[i])

\* an error with no status code whose message is "NETWORK" was retried on
\* the strength of its lower-cased message, and an error with no status
\* code and none of the three words then ended the loop
C21_Witness ==
    /\ InRetryLoop
    /\ retryConfig.maxAttempts = 3
    /\ Len(replies) = 2
    /\ IsErrorReply(replies[1])
    /\ replies[1].error[1] = [message |-> MsgNetwork, statusCode |-> None]
    /\ Len(sleeps) = 1
    /\ IsErrorReply(replies[2])
    /\ replies[2].error[1] = [message |-> MsgBoom, statusCode |-> None]
    /\ pc = "done"
    /\ result.kind = "Err"

\* ------------------------------------------------------------------------
\* C22 - the reset that follows an escalation removes only the failures
\* counted in that escalation: when the send of an escalation for a worker
\* settles (no manual reset, no later escalation for the worker), every
\* failure reported for the worker after the escalating report and still
\* inside the time window is counted by getFailureCount afterwards.
\* ------------------------------------------------------------------------

\* the reports made for worker w after report i that are inside the window
LaterInWindow(w, i) ==
    {k \in ReportsOf(w) :
        /\ k > i
        /\ trackCalls[k].at >= now - thresholds.timeWindowMinutes * 60 * 1000}

C22_SettleOf(w, i) ==
    (/\ trackCalls[i].status = "awaiting"
     /\ trackCalls'[i].status = "resolved"
     /\ ~manualReset
     /\ \A j \in AlertsOf(w) : j <= i)
    => CountNow(w)' >= Cardinality(LaterInWindow(w, i))

C22_ResetKeepsLaterFailures ==
    [][\A w \in Workers : \A i \in ReportsOf(w) : C22_SettleOf(w, i)]_vars

\* ------------------------------------------------------------------------
\* C23 - whenever a trackJobFailure call that reached the threshold has
\* settled, whether its send returned (success or failure result) or the
\* dispatcher threw, the worker's window is empty: as long as that call is
\* the last report made for the worker, nothing is stored for the worker,
\* so the next report starts a new count and does not escalate again for
\* the same failures.
\* ------------------------------------------------------------------------

\* report i reached the threshold and its call has settled
SettledEscalation(i) ==
    /\ trackCalls[i].count >= thresholds.failuresInWindow
    /\ trackCalls[i].status \in {"resolved", "rejected"}

C23_SettledMeansEmptyWindow ==
    \A w \in Workers :
        \A i \in ReportsOf(w) :
            (SettledEscalation(i) /\ \A k \in ReportsOf(w) : k <= i)
            => Stored(w) = <<>>

\* ------------------------------------------------------------------------
\* C24 - at the moment of every read (getFailureCount) and every write
\* (trackJobFailure) of a worker's window, every timestamp in the stored
\* window is >= now - timeWindow: the stored history never holds an
\* expired timestamp when it is accessed.
\* ------------------------------------------------------------------------

\* no timestamp of h is older than the time window at time t
NoneExpired(h, t) ==
    \A k \in DOMAIN h : h[k] >= t - thresholds.timeWindowMinutes * 60 * 1000

C24_NoExpiredWhenAccessed ==
    [][/\ ReadStep => NoneExpired(MapGetOrEmpty(failureHistory', lastRead'[1].worker), now)
       /\ \A w \in Workers :
             ReportStep(w) => NoneExpired(MapGetOrEmpty(failureHistory', w), now)]_vars

\* C24 as amended - right after every write (trackJobFailure) the window
\* stored for the reported worker holds no timestamp older than
\* now - timeWindow; a read (getFailureCount) counts exactly the stored
\* timestamps that are >= now - timeWindow, and leaves the stored window,
\* expired timestamps included, as it is.
C24_TrimOnWriteOnly ==
    [][/\ \A w \in Workers :
             ReportStep(w) => NoneExpired(MapGetOrEmpty(failureHistory', w), now)
       /\ ReadStep
             => LET h == MapGetOrEmpty(failureHistory, lastRead'[1].worker) IN
                /\ lastRead'[1].count
                      = Cardinality({k \in DOMAIN h :
                            h[k] >= now - thresholds.timeWindowMinutes * 60 * 1000})
                /\ failureHistory' = failureHistory]_vars

\* a second report for worker-A, made two minutes after the first, evicted
\* the first one's timestamp
C24_Witness ==
    /\ Len(trackCalls) = 2
    /\ ReportsOf("worker-A") = {1, 2}
    /\ trackCalls[1].at = 0
    /\ trackCalls[2].at = 2 * timeWindowMs
    /\ trackCalls[2].count = 1
    /\ Stored("worker-A") = <<2 * timeWindowMs>>
    /\ ~manualReset

\* ------------------------------------------------------------------------
\* C25 - for every sequence of transport outcomes sendWithRetry ends after
\* at most maxAttempts send calls and at most maxAttempts - 1 backoff
\* sleeps, and when it has returned the number of sleeps is one less than
\* the number of send calls.
\* ------------------------------------------------------------------------
C25_SleepsOneLessThanSends ==
    InRetryLoop
    => /\ sendCalls <= retryConfig.maxAttempts
       /\ Len(sleeps) <= retryConfig.maxAttempts - 1
       /\ LoopReturned => Len(sleeps) = sendCalls - 1

\* the sends and sleeps made so far by the call in progress
LoopWork == sendCalls + Len(sleeps)

\* C25 as amended - with maxAttempts >= 1, sendWithRetry makes at most
\* maxAttempts send calls and at most maxAttempts - 1 sleeps, every step of
\* the loop (a reset() of the singleton from outside is not one) either
\* returns or adds a send or a sleep (so the loop ends
\* after at most 2 * maxAttempts - 1 of them), and when it has returned
\* the number of sleeps is one less than the number of sends; with
\* maxAttempts = 0 it returns a failure without any send or sleep.
C25_BoundedRetries ==
    [][InRetryLoop'
       => /\ sendCalls' <= retryConfig.maxAttempts
          /\ retryConfig.maxAttempts >= 1
                => /\ Len(sleeps') <= retryConfig.maxAttempts - 1
                   /\ LoopWork' <= 2 * retryConfig.maxAttempts - 1
                   /\ LoopReturned' => Len(sleeps') = sendCalls' - 1
          /\ retryConfig.maxAttempts = 0
                => /\ LoopReturned'
                   /\ sendCalls' = 0
                   /\ sleeps' = <<>>
                   /\ result'.kind = "Err"
          /\ (InRetryLoop /\ pc \in {"sending", "sleeping"} /\ managerUp' = managerUp)
                => (pc' = "done" \/ LoopWork' = LoopWork + 1)]_vars

\* three sends and two sleeps: a thrown send, a 503 and an empty result
C25_Witness ==
    /\ LoopReturned
    /\ retryConfig.maxAttempts = 3
    /\ sendCalls = 3
    /\ Len(sleeps) = 2
    /\ replies[1].kind = "throw"
    /\ HasStatus(replies[2], 503)
    /\ replies[3].kind = "result"
    /\ replies[3].error = None
    /\ replies[3].data = None

\* ------------------------------------------------------------------------
\* C26 - a backoff sleep blocks only the call that is retrying: while one
\* call is sleeping between attempts, every other call can take its next
\* step (its render settling into its own transport send, its send
\* settling, its own sleep ending), a new sendAlert call can be made, and
\* trackJobFailure can update the window of any worker.
\* ------------------------------------------------------------------------

\* call j can take its next step
CanStep(j) ==
    /\ calls[j].pc = "rendering" => ENABLED DispatchRenderSettles(j, TRUE)
    /\ calls[j].pc = "sending"
          => \A reply \in DispatchReplies : ENABLED DispatchSendSettles(j, reply)
    /\ calls[j].pc = "sleeping" => ENABLED DispatchSleepSettles(j)

C26_SleepBlocksOnlyItsCall ==
    \A i \in DOMAIN calls :
        calls[i].pc = "sleeping"
        => /\ \A j \in DOMAIN calls \ {i} : CanStep(j)
           /\ Len(calls) < MaxAlerts => \A a \in AlertInputs : ENABLED SendAlert(a)
           /\ \A w \in Workers : ENABLED TrackJobFailure(w)

\* the first call is sleeping between its attempts while a call that
\* arrived later has issued its own send and returned Ok
C26_Witness ==
    /\ Len(calls) = 2
    /\ calls[1].pc = "sleeping"
    /\ calls[2].arrivedAt > calls[1].arrivedAt
    /\ calls[2].pc = "done"
    /\ calls[2].result.kind = "Ok"
    /\ Cardinality(MailsOf(1)) = 1
    /\ Cardinality(MailsOf(2)) = 1

\* ------------------------------------------------------------------------
\* C27 - AlertManager.reset() called while a sendAlerts call is mid-retry
\* leaves that call running as it was: the call goes on to make at most
\* maxAttempts sends in all, every step of its loop returns or adds a send
\* or a sleep, and it settles with Ok or with a typed failure; the batch is
\* never left without a reported outcome.
\* ------------------------------------------------------------------------
C27_ResetKeepsCallRunning ==
    [][/\ (managerUp /\ ~managerUp')
             => /\ UNCHANGED callVars
                /\ InRetryLoop
                /\ pc \in {"sending", "sleeping"}
       /\ (~managerUp' /\ InRetryLoop')
             => /\ sendCalls' <= retryConfig.maxAttempts
                /\ pc' = "done" => result'.kind \in {"Ok", "Err"}
                /\ pc' # "done" => result' = NoResult
       /\ (~managerUp /\ InRetryLoop /\ pc \in {"sending", "sleeping"})
             => (pc' = "done" \/ LoopWork' = LoopWork + 1)
       /\ (~managerUp /\ op = "sendAlerts" /\ pc = "done")
             => (op' = "none" => prevCall' = Some([op |-> "sendAlerts", kind |-> result.kind]))]_vars

\* reset() was called during the first call of the behaviour, while it was
\* between its attempts: the call went on, retried and returned Ok
C27_Witness ==
    /\ ~managerUp
    /\ prevCall = None
    /\ LoopReturned
    /\ retryConfig.maxAttempts = 2
    /\ Len(replies) = 2
    /\ HasStatus(replies[1], 429)
    /\ IsSuccessReply(replies[2])
    /\ result.kind = "Ok"
    /\ Len(sleeps) = 1

\* ------------------------------------------------------------------------
\* C28 - singleton lifecycle: getInstance throws exactly while no instance
\* is set, so until initialize has been called; initialize on an
\* initialized manager keeps the existing instance and its retry,
\* thresholds, debounce and sender settings, whatever configuration it is
\* given; reset() empties the slot, after which isInitialized() is false,
\* and a later initialize builds a new instance from its own configuration
\* (defaults where a setting is missing).
\* ------------------------------------------------------------------------

\* the settings of the current instance
instanceConfig == <<retryConfig, thresholds, debounceWindowMs, configFrom>>

\* the settings an instance built from `config` has
BuiltFrom(config) ==
    /\ retryConfig'.maxAttempts
          = IF config.retry.maxAttempts = None THEN 3 ELSE config.retry.maxAttempts[1]
    /\ retryConfig'.delays
          = IF config.retry.delays = None THEN <<1000, 2000, 4000>>
            ELSE config.retry.delays[1]
    /\ thresholds'.failuresInWindow
          = IF config.thresholds.failuresInWindow = None THEN 5
            ELSE config.thresholds.failuresInWindow[1]
    /\ thresholds'.timeWindowMinutes
          = IF config.thresholds.timeWindowMinutes = None THEN 10
            ELSE config.thresholds.timeWindowMinutes[1]
    /\ debounceWindowMs'
          = IF config.debounceWindowMs = None THEN 300000
            ELSE config.debounceWindowMs[1]
    /\ configFrom' = config.fromEmail

C28_Step ==
    /\ lastGet' # None
          => /\ lastGet'[1].call = "getInstance" => (lastGet'[1].threw <=> ~managerUp')
             /\ lastGet'[1].call = "isInitialized"
                   => (~lastGet'[1].threw /\ lastGet'[1].value = managerUp')
             /\ managerUp' = managerUp
             /\ instanceConfig' = instanceConfig
    /\ instancesBuilt' = 0 => ~managerUp'
    /\ \A config \in ConfigInputs :
          Initialize(config)
          => /\ managerUp'
             /\ managerUp => (instanceConfig' = instanceConfig
                              /\ instancesBuilt' = instancesBuilt)
             /\ ~managerUp => (BuiltFrom(config)
                               /\ instancesBuilt' = instancesBuilt + 1)
    /\ ResetManager => (~managerUp' /\ instancesBuilt' = instancesBuilt)

C28_SingletonLifecycle == [][C28_Step]_vars

\* a second instance, built after a reset from a configuration of its own,
\* is the one getInstance returns
C28_Witness ==
    /\ instancesBuilt = 2
    /\ managerUp
    /\ lastGet = Some([call |-> "getInstance", threw |-> FALSE, value |-> TRUE])
    /\ retryConfig = [maxAttempts |-> 1, delays |-> <<700>>]
    /\ thresholds = [failuresInWindow |-> 2, timeWindowMinutes |-> 10]
    /\ debounceWindowMs = 1000
    /\ configFrom = Some("alerts@lec.dev")

\* ------------------------------------------------------------------------
\* C29 - whenever no trackJobFailure call is in flight and every earlier
\* call resolved normally (none rejected), each worker's stored window
\* holds fewer timestamps than failuresInWindow.
\* ------------------------------------------------------------------------

AllResolved == \A i \in DOMAIN trackCalls : trackCalls[i].status = "resolved"

C29_QuiescentBelowThreshold ==
    AllResolved
    => \A w \in Workers : Len(Stored(w)) < thresholds.failuresInWindow

\* an escalation was sent and settled, and a later report of the same
\* worker is stored below the threshold with nothing in flight
C29_Witness ==
    /\ thresholds.failuresInWindow = 2
    /\ Len(trackCalls) = 3
    /\ AllResolved
    /\ \A i \in DOMAIN trackCalls : trackCalls[i].worker = "worker-A"
    /\ trackCalls[2].alert # None
    /\ trackCalls[3].alert = None
    /\ Len(Stored("worker-A")) = 1

\* ------------------------------------------------------------------------
\* C30 - a transport result with no error and no message id (data missing,
\* or an empty id) ends sendWithRetry at once with an "Invalid response
\* from mailer" failure: it is the last reply of the call, the result is
\* an Err and never an Ok, and no sleep and no further send follow it,
\* even when attempts remain.
\* ------------------------------------------------------------------------

\* the mailer replied with neither an error nor a message id
IsEmptyReply(r) ==
    r.kind = "result" /\ r.error = None /\ (r.data = None \/ r.data[1].id = "")

C30_InvalidResponseNotRetried ==
    \A i \in DOMAIN replies :
        (InRetryLoop /\ IsEmptyReply(replies[i]))
        => /\ i = Len(replies)
           /\ pc = "done"
           /\ result.kind = "Err"
           /\ result.message = "Invalid response from mailer"
           /\ result.context = [response |-> replies[i].data]
           /\ sendCalls = i
           /\ Len(sleeps) = i - 1

\* the first send of a call with three attempts allowed came back without
\* a message id: the call has returned the failure after that one send
C30_Witness ==
    /\ InRetryLoop
    /\ retryConfig.maxAttempts = 3
    /\ Len(replies) = 1
    /\ IsEmptyReply(replies[1])
    /\ replies[1].data = Some([id |-> ""])
    /\ pc = "done"
    /\ result.kind = "Err"
    /\ sendCalls = 1
    /\ sleeps = <<>>

\* ------------------------------------------------------------------------
\* C31 - PaginatedQueryBase construction: limit is props.limit, or 20 when
\* it is missing or 0; page is props.page, or 1 when it is missing or 0;
\* offset is (page - 1) * limit for every page > 1 and 0 otherwise, so it is
\* never negative for non-negative inputs.
\* ------------------------------------------------------------------------

\* the optional number o is missing or 0
MissingOrZero(o) == o = None \/ (~o[1].nan /\ o[1].val = 0)

\* the field f of the query is the number passed as o
IsGiven(f, o) == o # None /\ ~o[1].nan /\ f = o[1].val

\* the optional number o is missing or not negative
NotNegative(o) == o = None \/ o[1].nan \/ o[1].val >= 0

OffsetAsClaimed(q) ==
    /\ q.page > 1 => q.offset = (q.page - 1) * q.limit
    /\ q.page <= 1 => q.offset = 0

\* C31 as stated: the defaults apply when the number is missing or 0, and
\* in every other case the field is the number passed
C31_DefaultsWhenMissingOrZero ==
    query # None
    => LET q == query[1] IN
       /\ IF MissingOrZero(queryProps.limit)
          THEN q.limit = 20 ELSE IsGiven(q.limit, queryProps.limit)
       /\ IF MissingOrZero(queryProps.page)
          THEN q.page = 1 ELSE IsGiven(q.page, queryProps.page)
       /\ OffsetAsClaimed(q)
       /\ (NotNegative(queryProps.limit) /\ NotNegative(queryProps.page))
             => q.offset >= 0

\* C31 as amended - the defaults (limit 20, page 1) apply when the number
\* is missing, 0 or NaN; in every other case the field is the number
\* passed; offset is (page - 1) * limit for every page > 1 and 0 otherwise,
\* and it is not negative when neither input is negative; search is copied.
C31_Pagination ==
    query # None
    => LET q == query[1] IN
       /\ IF MissingOrZero(queryProps.limit)
             \/ (queryProps.limit # None /\ queryProps.limit[1].nan)
          THEN q.limit = 20 ELSE IsGiven(q.limit, queryProps.limit)
       /\ IF MissingOrZero(queryProps.page)
             \/ (queryProps.page # None /\ queryProps.page[1].nan)
          THEN q.page = 1 ELSE IsGiven(q.page, queryProps.page)
       /\ OffsetAsClaimed(q)
       /\ (NotNegative(queryProps.limit) /\ NotNegative(queryProps.page))
             => q.offset >= 0
       /\ q.search = queryProps.search

\* page 3 with NaN passed as the limit: the default limit, offset 40
C31_Witness ==
    /\ query # None
    /\ queryProps.limit = Some(NaN)
    /\ queryProps.page = Some(Num(3))
    /\ query[1].limit = 20
    /\ query[1].page = 3
    /\ query[1].offset = 40

====
